---- MODULE Spec2Model ----
(***************************************************************************)
(* Model of the Kraken feed relay and of the request gateway of            *)
(* server/routes.ts (registerRoutes), and of the browser hook useWebSocket *)
(* with its caller useKrakenData: as the relay's peer (Spec) and on its    *)
(* own (SpecMirror).                                                       *)
(*                                                                         *)
(* The relay keeps one shared upstream WebSocket (sharedKrakenWs) for all  *)
(* downstream clients (krakenClients).  Every handler of the source is one *)
(* action; a handler runs to completion (Node's event loop), events are    *)
(* interleaved arbitrarily.                                                *)
(***************************************************************************)
EXTENDS Integers, Sequences, FiniteSets, TLC

(***************************************************************************)
(* Bounds of the model.                                                    *)
(***************************************************************************)
\* const MAX_CLIENTS = 20 in the source (5 in the older server/routes.ts); the
\* admission logic only compares krakenClients.size with it, so the model
\* scales it down.
MAX_CLIENTS == 2
\* The model is explored in four scopes, chosen by Init and never changed:
\*   "link":   the life cycle of the upstream link and admission, no client
\*             traffic;
\*   "replay": one client and its hook across a reconnect of the upstream,
\*             with the control messages of the upstream;
\*   "subs":   subscription traffic of two clients on one upstream socket;
\*   "fanout": the broadcast of several data frames to two clients.
\* Upstream sockets the relay may create (new WebSocket('wss://ws.kraken.com')).
LinkSockets == 3
ReplaySockets == 2
SubsSockets == 1
FanoutSockets == 1
\* Messages the browser hooks may send to the relay, all clients together.
LinkMsgs == 0
ReplayMsgs == 2
SubsMsgs == 3
FanoutMsgs == 2
\* Connections open at the same time in the scopes "replay" and "subs": none
\* is ever rejected there.
ReplayClients == 1
SubsClients == 2
FanoutClients == 2
\* Data frames the upstream may emit, in scope "fanout" and in the other scopes.
FanoutFrames == 2
MaxFrames == 1
\* Status frames {type:'status', connected:true} in flight to one client.
MaxInFlight == 1

NoSocket == 0

(***************************************************************************)
(* The request gateway (isRateLimited, fetchWithRetry and the proxy        *)
(* endpoints /api/kraken/...).  Time is counted in seconds: every delay of *)
(* the source is a whole number of seconds.                                *)
(***************************************************************************)
\* const MAX_REQUESTS_PER_MINUTE = 15 in the source; isRateLimited only
\* compares the length of the window with it, so the model scales it down.
MAX_REQUESTS_PER_MINUTE == 2
\* Requests the proxy endpoints receive in one run.
MaxRequests == 3
\* The gateway is explored in two scopes:
\*   "retry": one request at a time, the upstream may fail every attempt of it;
\*   "quota": all requests at the same time, the upstream fails none.
\* Requests under way at the same time.
RetryActive == 1
QuotaActive == 3
\* Attempts the upstream lets fail (a 429 or an error) for the requests
\* under way.
RetryFailures == 3
QuotaFailures == 0
\* The clock stops here.
MaxTime == 62
\* now - 60000
WindowSeconds == 60
\* Math.min(30000, ...)
MaxBackoffSeconds == 30
\* fetchWithRetry(url, maxRetries = 3)
maxRetries == 3

\* The browser hook useWebSocket with its caller useKrakenData is explored in
\* four scopes:
\*   "backoff": a chain of reconnects, no frames and no calls of the caller;
\*   "session": two sockets, frames of the relay and calls of subscribe and
\*              unsubscribe;
\*   "candles": one socket, frames of the relay and historical loads;
\*   "select":  the user selects another pair or interval, renders follow.
\* Per scope: sockets the hook may create (new WebSocket(wsUrl)), runs of the
\* effect after the first one, pings per socket, frames the hook receives,
\* calls of subscribe / unsubscribe.
BackoffSockets == 6
SessionSockets == 2
BackoffRenders == 0
SessionRenders == 1
BackoffPings == 1
SessionPings == 0
BackoffFrames == 0
SessionFrames == 1
BackoffCalls == 0
SessionCalls == 1
CandlesSockets == 1
CandlesFrames == 3
\* Historical loads that resolve (scope "candles") and the candles one load
\* may bring (Kraken answers with up to 720).
CandlesLoads == 1
MaxHistory == 3
\* Scope "select": sockets, renders, changes of the selection, and messages
\* written to one socket.
SelectSockets == 2
SelectRenders == 1
SelectChanges == 1
SelectSent == 4
\* Messages the hook writes to one socket, steps of Math.random() (random /
\* RandomSteps stands for its value in [0, 1)), the attempt counts
\* getReconnectDelay is evaluated for, and the candles useKrakenData keeps (500
\* in the source) and their times.
MirrorSent == 3
RandomSteps == 2
MaxAttempt == 7
MaxCandles == 2
MaxCandleTime == 2
\* const maxReconnectAttempts = 5, maxReconnectDelay = 10000 (ms),
\* baseReconnectDelay = 1000 (ms)
maxReconnectAttempts == 5
maxReconnectDelay == 10000
baseReconnectDelay == 1000

(***************************************************************************)
(* KrakenWebSocketSubscription values used by the hooks.  interval = 0     *)
(* stands for "no interval" (the optional field is absent).                *)
(***************************************************************************)
Subscriptions ==
    { [name |-> "ohlc", interval |-> 5, token |-> "XBT/USD"],
      [name |-> "ticker", interval |-> 0, token |-> "XBT/USD"] }

\* What useKrakenData passes to subscribe and unsubscribe: { name: 'ohlc',
\* interval, token: selectedPair.wsname || selectedPair.id } for the selected
\* pair and interval (intervals 5, 15, ... minutes): the first selection and
\* the one after a change of the interval.
Selections ==
    { [name |-> "ohlc", interval |-> 5, token |-> "XBT/USD"],
      [name |-> "ohlc", interval |-> 15, token |-> "XBT/USD"] }

\* The message sendSubscription / subscribe build.  reqid is a random number
\* that nothing reads; it is left out.
SubscribeMessage(subscription) ==
    [ name |-> "subscribe",
      subscription |-> [name |-> subscription.name, interval |-> subscription.interval],
      pair |-> IF subscription.token # "" THEN <<subscription.token>> ELSE <<>> ]

UnsubscribeMessage(subscription) ==
    [ name |-> "unsubscribe",
      subscription |-> [name |-> subscription.name, interval |-> subscription.interval],
      pair |-> IF subscription.token # "" THEN <<subscription.token>> ELSE <<>> ]

VARIABLES
    scope,                   \* the scope explored
    readyState,              \* readyState of every upstream socket ever created
    closedBy,                \* who started the close of an upstream socket
    created,                 \* number of upstream sockets created so far
    sharedKrakenWs,          \* let sharedKrakenWs: WebSocket | null
    activeKrakenConnections, \* let activeKrakenConnections
    krakenClients,           \* let krakenClients = new Set<WebSocket>()
    timers,                  \* pending setTimeout(setupKrakenWebSocket, 2000)
    clientState,             \* readyState of the relay's socket to each client
    krakenWs,                \* const krakenWs captured by a client's handlers
    lastStatus,              \* last status / error frame the relay sent a client
    statusInFlight,          \* status frames (connected: true) not yet handled by the hook
    toServer,                \* messages in flight from a hook to the relay
    sentUp,                  \* messages written to each upstream socket
    delivered,               \* upstream frames the relay sent to each client
    subscriptionsRef,        \* subscriptionsRef.current of each client's hook
    msgs,                    \* messages the hooks have sent so far
    emitted,                 \* data frames the upstream has emitted so far, in order
    heldAtDrop,              \* history: what the hooks held when the shared link last dropped
    writeFailed,             \* history: clients the relay failed to write a data frame to
    dropped                  \* history: clients of which the relay received a message
                             \* that it neither forwarded nor kept

VARIABLES
    now,                     \* Date.now(), in seconds
    requestTimestamps,       \* const requestTimestamps: { [endpoint]: number[] }
    pc,                      \* where each request is: "idle", "throttled", "fetching",
                             \* "backoff", "done" (answering), "gone"
    endpoint,                \* the proxy endpoint a request came in on
    query,                   \* req.query.pair of the request ("": absent)
    retries,                 \* let retries of its fetchWithRetry
    lastError,               \* let lastError of its fetchWithRetry
    wakeAt,                  \* when the setTimeout it awaits fires
    response,                \* status of the last upstream response it got (0: none)
    thrown,                  \* what its fetchWithRetry threw
    answer,                  \* status the proxy endpoint answered with (0: not yet)
    calls,                   \* history: upstream calls fetch(url) made for it
    stamps,                  \* history: timestamps recorded for it
    lastFailure,             \* history: the last failed attempt it saw (429 or an error)
    recordedFor              \* history: the timestamps recorded for the requests of
                             \* each endpoint, those of the last minute

VARIABLES
    mounted,                 \* the effect of useWebSocket: "no" before it ran, "yes", "gone"
                             \* after the unmount
    socketRef,               \* socketRef.current (NoSocket: null)
    socketState,             \* readyState of every browser socket the hook created
    closeCode,               \* event.code of the pending close event of a socket (0: none)
    socketsCreated,          \* number of browser sockets created so far
    reconnectAttemptsRef,    \* reconnectAttemptsRef.current
    isConnected,             \* const [isConnected, setIsConnected]
    hookError,               \* const [error, setError] of the hook: "null" or the message
                             \* of the Error
    reconnectTimers,         \* sockets whose onclose has a reconnect setTimeout pending
    retryTimers,             \* pending setTimeout(connectWebSocket, delay) of the catch block
    delay,                   \* the last const delay = getReconnectDelay(), in ms (0: none yet)
    sent,                    \* messages written to each browser socket
    received,                \* history: the frames the hook has received, in order
    handled,                 \* history: what the hook passed to onMessage, in order
    hookCalls,               \* history: calls of subscribe / unsubscribe so far
    renders,                 \* history: runs of the effect after the first one
    ohlcData,                \* const [ohlcData, setOhlcData] of useKrakenData (candle times)
    loads,                   \* history: historical loads that have resolved
    selected,                \* selectedPair and interval of useKrakenData, as the
                             \* subscription made of them
    selects,                 \* history: calls of setSelectedPair / setInterval
    effectDeps,              \* selected and isConnected of the last run of the effect
                             \* "load data when pair or interval changes"
    effectTimer,             \* its pending setTimeout(..., 100): the subscription its
                             \* callback has captured (at most one)
    subscribeTimers,         \* the pending setTimeout(..., 300): the subscriptions
                             \* their callbacks have captured
    onOpenOf                 \* per socket, the subscription the onOpen of its
                             \* connectWebSocket has captured

mirrorVars == << mounted, socketRef, socketState, closeCode, socketsCreated,
                 reconnectAttemptsRef, isConnected, hookError, reconnectTimers, retryTimers,
                 delay, sent, received, handled, hookCalls, renders, ohlcData, loads,
                 selected, selects, effectDeps, effectTimer, subscribeTimers, onOpenOf >>

\* What the actions of the hook's sockets and timers leave alone of useKrakenData.
selectionVars == << selected, selects, effectDeps, effectTimer, subscribeTimers >>

gatewayVars == << now, requestTimestamps, pc, endpoint, query, retries, lastError, wakeAt,
                  response, thrown, answer, calls, stamps, lastFailure, recordedFor >>

relayVars == << scope, readyState, closedBy, created, sharedKrakenWs,
               activeKrakenConnections, krakenClients, timers, clientState, krakenWs,
               lastStatus, statusInFlight, toServer, sentUp, delivered, subscriptionsRef,
               msgs, emitted, heldAtDrop, writeFailed, dropped >>

\* The relay's variables but subscriptionsRef: in scope "mirror"
\* subscriptionsRef[Hook] is subscriptionsRef.current of the hook.
relayRest == << scope, readyState, closedBy, created, sharedKrakenWs,
               activeKrakenConnections, krakenClients, timers, clientState, krakenWs,
               lastStatus, statusInFlight, toServer, sentUp, delivered,
               msgs, emitted, heldAtDrop, writeFailed, dropped >>

vars == << relayVars, gatewayVars, mirrorVars >>

Scopes == {"link", "replay", "subs", "fanout"}
MaxSockets ==
    CASE scope = "link" -> LinkSockets
      [] scope = "replay" -> ReplaySockets
      [] scope = "fanout" -> FanoutSockets
      [] OTHER -> SubsSockets
MaxMsgs ==
    CASE scope = "link" -> LinkMsgs
      [] scope = "replay" -> ReplayMsgs
      [] scope = "fanout" -> FanoutMsgs
      [] OTHER -> SubsMsgs
FrameLimit == IF scope = "fanout" THEN FanoutFrames ELSE MaxFrames
Socks == 1..MaxSockets
\* In scope "link" one more connection slot than the relay admits, so that a
\* rejection happens.
Clients ==
    CASE scope = "link" -> 1..(MAX_CLIENTS + 1)
      [] scope = "replay" -> 1..ReplayClients
      [] scope = "fanout" -> 1..FanoutClients
      [] OTHER -> 1..SubsClients

upstreamVars == << readyState, closedBy, created, sharedKrakenWs, activeKrakenConnections >>
hookVars == << statusInFlight, toServer, subscriptionsRef, msgs >>

InitIn(sc) ==
    /\ scope = sc
    /\ readyState = [s \in Socks |-> "NONE"]
    /\ closedBy = [s \in Socks |-> "none"]
    /\ created = 0
    /\ sharedKrakenWs = NoSocket
    /\ activeKrakenConnections = 0
    /\ krakenClients = {}
    /\ timers = 0
    /\ clientState = [c \in Clients |-> "NONE"]
    /\ krakenWs = [c \in Clients |-> NoSocket]
    /\ lastStatus = [c \in Clients |-> "none"]
    /\ statusInFlight = [c \in Clients |-> 0]
    /\ toServer = [c \in Clients |-> <<>>]
    /\ sentUp = [s \in Socks |-> <<>>]
    /\ delivered = [c \in Clients |-> <<>>]
    /\ subscriptionsRef = [c \in Clients |-> <<>>]
    /\ msgs = 0
    /\ emitted = <<>>
    /\ heldAtDrop = {}
    /\ writeFailed = {}
    /\ dropped = {}

Requests == 1..MaxRequests
Endpoints == {"ohlc", "ticker", "assetpairs"}
\* Keys of requestTimestamps.  An absent key reads as the empty list, which is
\* what isRateLimited makes of it.
Keys == Endpoints \cup {"kraken"}

\* The gateway after registerRoutes, no request received yet.
GatewayInit ==
    /\ now = 0
    /\ requestTimestamps = [k \in Keys |-> <<>>]
    /\ pc = [r \in Requests |-> "idle"]
    /\ endpoint = [r \in Requests |-> "none"]
    /\ query = [r \in Requests |-> ""]
    /\ retries = [r \in Requests |-> 0]
    /\ lastError = [r \in Requests |-> "undefined"]
    /\ wakeAt = [r \in Requests |-> 0]
    /\ response = [r \in Requests |-> 0]
    /\ thrown = [r \in Requests |-> "none"]
    /\ answer = [r \in Requests |-> 0]
    /\ calls = [r \in Requests |-> 0]
    /\ stamps = [r \in Requests |-> 0]
    /\ lastFailure = [r \in Requests |-> "none"]
    /\ recordedFor = [e \in Endpoints |-> <<>>]

MirrorScopes == {"backoff", "session", "candles", "select"}
MirrorSockets ==
    CASE scope = "backoff" -> BackoffSockets
      [] scope = "candles" -> CandlesSockets
      [] scope = "select" -> SelectSockets
      [] OTHER -> SessionSockets
MaxRenders ==
    CASE scope = "session" -> SessionRenders
      [] scope = "select" -> SelectRenders
      [] OTHER -> BackoffRenders
MaxSelects == IF scope = "select" THEN SelectChanges ELSE 0
MaxSent == IF scope = "select" THEN SelectSent ELSE MirrorSent
MaxPings == IF scope = "backoff" THEN BackoffPings ELSE SessionPings
MirrorFrames ==
    CASE scope = "backoff" -> BackoffFrames
      [] scope = "candles" -> CandlesFrames
      [] OTHER -> SessionFrames
MaxHookCalls == IF scope = "session" THEN SessionCalls ELSE BackoffCalls
MaxLoads == IF scope = "candles" THEN CandlesLoads ELSE 0
BrowserSockets == 1..MirrorSockets

\* The subscription the onOpen callback of useKrakenData subscribes to:
\* { name: 'ohlc', interval, token: selectedPair.wsname || selectedPair.id },
\* for the first selection: defaultTradingPairs[0] and interval 5.
OnOpenSubscription == [name |-> "ohlc", interval |-> 5, token |-> "XBT/USD"]

\* The hook after its first render, before its effect has run.
MirrorInit ==
    /\ mounted = "no"
    /\ socketRef = NoSocket
    /\ socketState = [s \in BrowserSockets |-> "NONE"]
    /\ closeCode = [s \in BrowserSockets |-> 0]
    /\ socketsCreated = 0
    /\ reconnectAttemptsRef = 0
    /\ isConnected = FALSE
    /\ hookError = "null"
    /\ reconnectTimers = {}
    /\ retryTimers = 0
    /\ delay = 0
    /\ sent = [s \in BrowserSockets |-> <<>>]
    /\ received = <<>>
    /\ handled = <<>>
    /\ hookCalls = 0
    /\ renders = 0
    /\ ohlcData = <<>>
    /\ loads = 0
    /\ selected = OnOpenSubscription
    /\ selects = 0
    /\ effectDeps = << OnOpenSubscription, FALSE >>
    /\ effectTimer = {}
    /\ subscribeTimers = {}
    /\ onOpenOf = [s \in BrowserSockets |-> OnOpenSubscription]

Init == \E sc \in Scopes : InitIn(sc) /\ GatewayInit /\ MirrorInit

\* The gateway alone: no WebSocket traffic.
GatewayScopes == {"retry", "quota"}
MaxActive == IF scope = "retry" THEN RetryActive ELSE QuotaActive
MaxFailures == IF scope = "retry" THEN RetryFailures ELSE QuotaFailures
InitGateway == \E sc \in GatewayScopes : InitIn(sc) /\ GatewayInit /\ MirrorInit

\* The hook alone: the relay is its environment.
InitMirror == \E sc \in MirrorScopes : InitIn(sc) /\ GatewayInit /\ MirrorInit

(***************************************************************************)
(* Helpers.                                                                *)
(***************************************************************************)
\* Mutant of IsLive: a socket that is still connecting does not count.
IsLive_OnlyOpen(s) == s # NoSocket /\ readyState[s] = "OPEN"

\* sharedKrakenWs && (readyState === OPEN || readyState === CONNECTING)
IsLive(s) == s # NoSocket /\ readyState[s] \in {"OPEN", "CONNECTING"}

\* Clients a forEach over krakenClients writes to: client.readyState === OPEN.
OpenClients == { c \in krakenClients : clientState[c] = "OPEN" }

\* function setupKrakenWebSocket(): returns the shared socket when it is OPEN or
\* CONNECTING, creates a new one otherwise.
setupKrakenWebSocket ==
    IF IsLive(sharedKrakenWs)
    THEN UNCHANGED << readyState, created, sharedKrakenWs, activeKrakenConnections >>
    ELSE /\ created < MaxSockets
         /\ created' = created + 1
         /\ activeKrakenConnections' = activeKrakenConnections + 1
         /\ sharedKrakenWs' = created + 1
         /\ readyState' = [readyState EXCEPT ![created + 1] = "CONNECTING"]

(***************************************************************************)
(* wss.on('connection')                                                    *)
(***************************************************************************)
\* Mutant of TooManyClients: the comparison off by one.
TooManyClients_OffByOne == Cardinality(krakenClients) > MAX_CLIENTS

\* if (krakenClients.size >= MAX_CLIENTS)
TooManyClients == Cardinality(krakenClients) >= MAX_CLIENTS

\* Mutant of ReadyStateOpen: a link that is still connecting counts as open.
ReadyStateOpen_OrConnecting(state) == state \in {"OPEN", "CONNECTING"}

\* krakenWs.readyState === WebSocket.OPEN
ReadyStateOpen(state) == state = "OPEN"

\* A new connection takes the first free slot (which slot is immaterial).
ClientConnect(c) ==
    /\ UNCHANGED << scope, gatewayVars, mirrorVars >>
    /\ clientState[c] = "NONE"
    /\ \A d \in Clients : d < c => clientState[d] # "NONE"
    /\ IF TooManyClients
       THEN \* ws.send({type:'error'}); ws.close(); return
            /\ lastStatus' = [lastStatus EXCEPT ![c] = "error"]
            /\ clientState' = [clientState EXCEPT ![c] = "CLOSING"]
            /\ UNCHANGED << upstreamVars, krakenClients, timers, krakenWs, hookVars,
                            sentUp, delivered, emitted, heldAtDrop,
                    writeFailed, dropped >>
       ELSE /\ krakenClients' = krakenClients \cup {c}
            /\ setupKrakenWebSocket
            /\ krakenWs' = [krakenWs EXCEPT ![c] = sharedKrakenWs']
            /\ clientState' = [clientState EXCEPT ![c] = "OPEN"]
            /\ IF ReadyStateOpen(readyState'[sharedKrakenWs'])
               THEN /\ statusInFlight[c] < MaxInFlight
                    /\ lastStatus' = [lastStatus EXCEPT ![c] = "true"]
                    /\ statusInFlight' = [statusInFlight EXCEPT ![c] = @ + 1]
               ELSE /\ lastStatus' = [lastStatus EXCEPT ![c] = "false"]
                    /\ UNCHANGED statusInFlight
            /\ UNCHANGED << closedBy, timers, toServer, subscriptionsRef, msgs,
                            sentUp, delivered, emitted, heldAtDrop,
                    writeFailed, dropped >>

(***************************************************************************)
(* ws.on('message'): a message of client c reaches the relay.  The handler *)
(* uses krakenWs, the socket setupKrakenWebSocket returned when c          *)
(* connected.                                                              *)
(***************************************************************************)
ClientMessage(c) ==
    /\ UNCHANGED << scope, gatewayVars, mirrorVars >>
    /\ c \in krakenClients
    /\ clientState[c] = "OPEN"
    /\ toServer[c] # <<>>
    /\ toServer' = [toServer EXCEPT ![c] = Tail(@)]
    /\ IF readyState[krakenWs[c]] = "OPEN"
       THEN \* krakenWs.send(message)
            /\ sentUp' = [sentUp EXCEPT ![krakenWs[c]] =
                             Append(@, [from |-> c, msg |-> Head(toServer[c])])]
            /\ UNCHANGED << lastStatus, dropped >>
       ELSE \* console.log('... buffering message');
            \* ws.send({type:'status', connected:false, message:'Connecting to Kraken...'})
            \* The message is stored nowhere.
            /\ lastStatus' = [lastStatus EXCEPT ![c] = "false"]
            /\ dropped' = dropped \cup {c}
            /\ UNCHANGED sentUp
    /\ UNCHANGED << upstreamVars, krakenClients, timers, clientState, krakenWs,
                    statusInFlight, subscriptionsRef, msgs, delivered, emitted, heldAtDrop,
                    writeFailed >>

(***************************************************************************)
(* The transport of an admitted client starts closing (the peer sent a     *)
(* close frame or the connection dropped): readyState leaves OPEN, the     *)
(* 'close' event follows.  What was in flight is lost.                     *)
(***************************************************************************)
ClientBeginClose(c) ==
    /\ UNCHANGED << scope, gatewayVars, mirrorVars >>
    /\ c \in krakenClients
    /\ clientState[c] = "OPEN"
    /\ clientState' = [clientState EXCEPT ![c] = "CLOSING"]
    /\ toServer' = [toServer EXCEPT ![c] = <<>>]
    /\ statusInFlight' = [statusInFlight EXCEPT ![c] = 0]
    /\ UNCHANGED << upstreamVars, krakenClients, timers, krakenWs, lastStatus,
                    subscriptionsRef, msgs, sentUp, delivered, emitted, heldAtDrop,
                    writeFailed, dropped >>

(***************************************************************************)
(* ws.on('close') of an admitted client.  The socket object is gone        *)
(* afterwards; its slot may be taken by a new connection.                  *)
(***************************************************************************)
ClientClose(c) ==
    /\ UNCHANGED << scope, gatewayVars, mirrorVars >>
    /\ c \in krakenClients
    /\ clientState[c] = "CLOSING"
    /\ krakenClients' = krakenClients \ {c}
    /\ IF krakenClients' = {} /\ sharedKrakenWs # NoSocket
          /\ readyState[sharedKrakenWs] = "OPEN"
       THEN \* sharedKrakenWs.close(); sharedKrakenWs = null
            /\ readyState' = [readyState EXCEPT ![sharedKrakenWs] = "CLOSING"]
            /\ closedBy' = [closedBy EXCEPT ![sharedKrakenWs] = "relay"]
            /\ sharedKrakenWs' = NoSocket
       ELSE UNCHANGED << readyState, closedBy, sharedKrakenWs >>
    /\ clientState' = [clientState EXCEPT ![c] = "NONE"]
    /\ krakenWs' = [krakenWs EXCEPT ![c] = NoSocket]
    /\ lastStatus' = [lastStatus EXCEPT ![c] = "none"]
    /\ delivered' = [delivered EXCEPT ![c] = <<>>]
    /\ subscriptionsRef' = [subscriptionsRef EXCEPT ![c] = <<>>]
    /\ writeFailed' = writeFailed \ {c}
    /\ dropped' = dropped \ {c}
    /\ UNCHANGED << created, activeKrakenConnections, timers, statusInFlight, toServer,
                    msgs, sentUp, emitted, heldAtDrop >>

\* The transport of a rejected connection finishes closing.  The relay attached
\* no handler to it (the connection handler returned before ws.on).
RejectedClosed(c) ==
    /\ UNCHANGED << scope, gatewayVars, mirrorVars >>
    /\ c \notin krakenClients
    /\ clientState[c] = "CLOSING"
    /\ clientState' = [clientState EXCEPT ![c] = "NONE"]
    /\ lastStatus' = [lastStatus EXCEPT ![c] = "none"]
    /\ UNCHANGED << upstreamVars, krakenClients, timers, krakenWs, hookVars,
                    sentUp, delivered, emitted, heldAtDrop,
                    writeFailed, dropped >>

(***************************************************************************)
(* Handlers of an upstream socket s.  They are attached to the socket, not *)
(* to the variable sharedKrakenWs, so they run for every socket created.   *)
(***************************************************************************)
\* sharedKrakenWs.on('open')
KrakenOpen(s) ==
    /\ UNCHANGED << scope, gatewayVars, mirrorVars >>
    /\ readyState[s] = "CONNECTING"
    /\ readyState' = [readyState EXCEPT ![s] = "OPEN"]
    /\ \A c \in OpenClients : statusInFlight[c] < MaxInFlight
    /\ lastStatus' = [c \in Clients |->
                         IF c \in OpenClients THEN "true" ELSE lastStatus[c]]
    /\ statusInFlight' = [c \in Clients |->
                             IF c \in OpenClients THEN statusInFlight[c] + 1
                             ELSE statusInFlight[c]]
    /\ UNCHANGED << closedBy, created, sharedKrakenWs, activeKrakenConnections,
                    krakenClients, timers, clientState, krakenWs, toServer, sentUp,
                    delivered, subscriptionsRef, msgs, emitted, heldAtDrop,
                    writeFailed, dropped >>

\* What the upstream holds as subscribed on socket s: the subscribe messages
\* written to s that no later unsubscribe message withdrew.
SubKey(m) == [subscription |-> m.subscription, pair |-> m.pair]
UpstreamSubscribed(s) ==
    { SubKey(sentUp[s][i].msg) : i \in
        { j \in 1..Len(sentUp[s]) :
            /\ sentUp[s][j].msg.name = "subscribe"
            /\ \A k \in (j + 1)..Len(sentUp[s]) :
                  ~(/\ sentUp[s][k].msg.name = "unsubscribe"
                    /\ SubKey(sentUp[s][k].msg) = SubKey(sentUp[s][j].msg)) } }

\* A data frame of the upstream for a subscribed channel, e.g.
\* [channelID, [...], "ohlc-5", "XBT/USD"].
DataFrame(key, n) ==
    [ channelName |-> key.subscription.name, interval |-> key.subscription.interval,
      pair |-> key.pair, n |-> n ]

\* The control messages of the upstream, heartbeat and systemStatus (the ones
\* handleWsMessage tells apart from data updates).  The upstream sends them
\* without a subscription.  They are explored in scope "replay".
ControlEvents == IF scope = "replay" THEN {"heartbeat", "systemStatus"} ELSE {}
EventFrame(event, n) == [ event |-> event, n |-> n ]
IsControl(frame) == "event" \in DOMAIN frame

\* Mutant of send: the frame is put in front of what was written before.
send_Front(queue, data) == <<data>> \o queue

\* client.send(data): the frame is written to the client's transport as it is,
\* behind what was written before.
send(queue, data) == Append(queue, data)

\* Mutant of Written: the forEach ends at the first write that fails.
Written_UntilFailure(lost) == { c \in OpenClients : \A d \in lost : c < d }

\* The clients a broadcast reaches when the writes to the clients in lost fail:
\* the forEach goes over all of krakenClients, send() on an OPEN socket does
\* not throw, a failed write surfaces later as the 'close' of that client.
Written(lost) == OpenClients \ lost

\* sharedKrakenWs.on('message'): broadcast to all connected clients.  The
\* transport of the clients in lost is broken (the relay has not seen their
\* 'close' yet, readyState is OPEN): the write to them fails and their socket
\* starts closing.
KrakenMessage(s, data, lost) ==
    /\ UNCHANGED << scope, gatewayVars, mirrorVars >>
    /\ readyState[s] = "OPEN"
    /\ Len(emitted) < FrameLimit
    /\ lost \subseteq OpenClients
    /\ emitted' = Append(emitted, data)
    /\ delivered' = [c \in Clients |->
                        IF c \in Written(lost) THEN send(delivered[c], data)
                        ELSE delivered[c]]
    /\ clientState' = [c \in Clients |->
                          IF c \in lost THEN "CLOSING" ELSE clientState[c]]
    /\ toServer' = [c \in Clients |-> IF c \in lost THEN <<>> ELSE toServer[c]]
    /\ statusInFlight' = [c \in Clients |->
                             IF c \in lost THEN 0 ELSE statusInFlight[c]]
    /\ writeFailed' = writeFailed \cup lost
    /\ UNCHANGED << upstreamVars, krakenClients, timers, krakenWs, lastStatus,
                    subscriptionsRef, msgs, sentUp, heldAtDrop, dropped >>

\* The subscriptions the hooks of the connected clients hold.
HeldBy(c) ==
    { SubKey(SubscribeMessage(subscriptionsRef[c][i])) : i \in 1..Len(subscriptionsRef[c]) }
HeldKeys == UNION { HeldBy(c) : c \in OpenClients }

\* The upstream connection cannot be established ("failed") or the open link
\* is closed by the upstream or lost ("remote"): the socket leaves CONNECTING /
\* OPEN ('error' is only logged), its 'close' event follows.
KrakenFail(s) ==
    /\ UNCHANGED << scope, gatewayVars, mirrorVars >>
    /\ readyState[s] \in {"CONNECTING", "OPEN"}
    /\ readyState' = [readyState EXCEPT ![s] = "CLOSING"]
    /\ closedBy' = [closedBy EXCEPT ![s] =
                        IF readyState[s] = "OPEN" THEN "remote" ELSE "failed"]
    /\ heldAtDrop' = IF s = sharedKrakenWs /\ readyState[s] = "OPEN"
                     THEN HeldKeys ELSE heldAtDrop
    /\ UNCHANGED << created, sharedKrakenWs, activeKrakenConnections, krakenClients,
                    timers, clientState, krakenWs, lastStatus, hookVars, sentUp,
                    delivered, emitted, writeFailed, dropped >>

\* Mutant of ScheduleReconnect: the close handler schedules no reconnect.
ScheduleReconnect_Never == timers

\* if (krakenClients.size > 0) setTimeout(setupKrakenWebSocket, 2000)
ScheduleReconnect == IF Cardinality(krakenClients) > 0 THEN timers + 1 ELSE timers

\* sharedKrakenWs.on('close')
KrakenClose(s) ==
    /\ UNCHANGED << scope, gatewayVars, mirrorVars >>
    /\ readyState[s] = "CLOSING"
    /\ readyState' = [readyState EXCEPT ![s] = "CLOSED"]
    /\ sharedKrakenWs' = NoSocket
    /\ activeKrakenConnections' = activeKrakenConnections - 1
    /\ lastStatus' = [c \in Clients |->
                         IF c \in OpenClients THEN "false" ELSE lastStatus[c]]
    /\ timers' = ScheduleReconnect
    \* the connection is gone, and with it what the upstream held for it
    /\ sentUp' = [sentUp EXCEPT ![s] = <<>>]
    /\ UNCHANGED << closedBy, created, krakenClients, clientState, krakenWs, hookVars,
                    delivered, emitted, heldAtDrop,
                    writeFailed, dropped >>

\* The timer of setTimeout(setupKrakenWebSocket, 2000) fires.
ReconnectTimer ==
    /\ UNCHANGED << scope, gatewayVars, mirrorVars >>
    /\ timers > 0
    /\ timers' = timers - 1
    /\ setupKrakenWebSocket
    /\ UNCHANGED << closedBy, krakenClients, clientState, krakenWs, lastStatus,
                    hookVars, sentUp, delivered, emitted, heldAtDrop,
                    writeFailed, dropped >>

(***************************************************************************)
(* The browser hook useWebSocket of client c, as far as it produces the    *)
(* relay's input.  Its socket is open while the relay's end is.            *)
(***************************************************************************)
HasName(subs, name) == \E i \in 1..Len(subs) : subs[i].name = name

\* subscriptionsRef.current.push(subscription) unless one of that name is there
PushIfNew(subs, subscription) ==
    IF HasName(subs, subscription.name) THEN subs ELSE Append(subs, subscription)

\* Mutant of FilterName: nothing is removed.
FilterName_Keeps(subs, name) == subs

\* subscriptionsRef.current.filter(sub => sub.name !== subscription.name)
RECURSIVE FilterName(_, _)
FilterName(subs, name) ==
    IF subs = <<>> THEN <<>>
    ELSE IF Head(subs).name = name THEN FilterName(Tail(subs), name)
         ELSE <<Head(subs)>> \o FilterName(Tail(subs), name)

\* Mutant of Resubscribe: only the first subscription of the list is sent.
Resubscribe_First(subs) ==
    IF subs = <<>> THEN <<>> ELSE <<SubscribeMessage(Head(subs))>>

\* subscriptionsRef.current.forEach(subscription => sendSubscription(socket, subscription))
RECURSIVE Resubscribe(_)
Resubscribe(subs) ==
    IF subs = <<>> THEN <<>>
    ELSE <<SubscribeMessage(Head(subs))>> \o Resubscribe(Tail(subs))

\* subscribe(subscription) with the socket open
subscribe(c, subscription) ==
    /\ UNCHANGED << scope, gatewayVars, mirrorVars >>
    /\ c \in krakenClients
    /\ clientState[c] = "OPEN"
    /\ msgs < MaxMsgs
    /\ msgs' = msgs + 1
    /\ toServer' = [toServer EXCEPT ![c] = Append(@, SubscribeMessage(subscription))]
    /\ subscriptionsRef' = [subscriptionsRef EXCEPT ![c] = PushIfNew(@, subscription)]
    /\ UNCHANGED << upstreamVars, krakenClients, timers, clientState, krakenWs,
                    lastStatus, statusInFlight, sentUp, delivered, emitted, heldAtDrop,
                    writeFailed, dropped >>

\* unsubscribe(subscription) with the socket open
unsubscribe(c, subscription) ==
    /\ UNCHANGED << scope, gatewayVars, mirrorVars >>
    /\ c \in krakenClients
    /\ clientState[c] = "OPEN"
    /\ msgs < MaxMsgs
    /\ msgs' = msgs + 1
    /\ toServer' = [toServer EXCEPT ![c] = Append(@, UnsubscribeMessage(subscription))]
    /\ subscriptionsRef' = [subscriptionsRef EXCEPT ![c] = FilterName(@, subscription.name)]
    /\ UNCHANGED << upstreamVars, krakenClients, timers, clientState, krakenWs,
                    lastStatus, statusInFlight, sentUp, delivered, emitted, heldAtDrop,
                    writeFailed, dropped >>

\* socket.onmessage for a frame {type:'status', connected:true}: the hook
\* subscribes again to everything in subscriptionsRef.
HookOnStatusConnected(c) ==
    /\ UNCHANGED << scope, gatewayVars, mirrorVars >>
    /\ c \in krakenClients
    /\ clientState[c] = "OPEN"
    /\ statusInFlight[c] > 0
    /\ msgs + Len(subscriptionsRef[c]) <= MaxMsgs
    /\ statusInFlight' = [statusInFlight EXCEPT ![c] = @ - 1]
    /\ msgs' = msgs + Len(subscriptionsRef[c])
    /\ toServer' = [toServer EXCEPT ![c] = @ \o Resubscribe(subscriptionsRef[c])]
    /\ UNCHANGED << upstreamVars, krakenClients, timers, clientState, krakenWs,
                    lastStatus, subscriptionsRef, sentUp, delivered, emitted, heldAtDrop,
                    writeFailed, dropped >>

Next ==
    \/ \E c \in Clients : ClientConnect(c)
    \/ \E c \in Clients : ClientMessage(c)
    \/ \E c \in Clients : ClientBeginClose(c)
    \/ \E c \in Clients : ClientClose(c)
    \/ \E c \in Clients : RejectedClosed(c)
    \/ \E s \in Socks : KrakenOpen(s)
    \/ \E s \in Socks : \E key \in UpstreamSubscribed(s) : \E lost \in SUBSET OpenClients :
          KrakenMessage(s, DataFrame(key, Len(emitted) + 1), lost)
    \/ \E s \in Socks : \E event \in ControlEvents : \E lost \in SUBSET OpenClients :
          KrakenMessage(s, EventFrame(event, Len(emitted) + 1), lost)
    \/ \E s \in Socks : KrakenFail(s)
    \/ \E s \in Socks : KrakenClose(s)
    \/ ReconnectTimer
    \/ \E c \in Clients : \E subscription \in Subscriptions : subscribe(c, subscription)
    \/ \E c \in Clients : \E subscription \in Subscriptions : unsubscribe(c, subscription)
    \/ \E c \in Clients : HookOnStatusConnected(c)

Spec == Init /\ [][Next]_vars

\* The reconnect timer of setTimeout fires once its delay has passed.
FairSpec == Init /\ [][Next]_vars /\ WF_vars(ReconnectTimer)

(***************************************************************************)
(* The request gateway.  A request is the run of one proxy handler; it     *)
(* gives up control at every await, the steps between two awaits are one   *)
(* action.                                                                 *)
(***************************************************************************)
Statuses == {200, 429, 500}
Errors == {"ECONNRESET", "ETIMEDOUT"}
Pairs == {"", "XBTUSD"}

Min(a, b) == IF a < b THEN a ELSE b

\* requestTimestamps[endpoint].filter(time => time > oneMinuteAgo)
Recent(timestamps, t) ==
    LET InWindow(time) == time > t - WindowSeconds
    IN SelectSeq(timestamps, InWindow)

\* Mutant of isRateLimited: the comparison off by one.
isRateLimited_OffByOne(timestamps, t) ==
    LET recent == Recent(timestamps, t)
    IN IF Len(recent) > MAX_REQUESTS_PER_MINUTE
       THEN [ limited |-> TRUE,
              backoffMs |-> Min(MaxBackoffSeconds,
                                2 ^ (Len(recent) - MAX_REQUESTS_PER_MINUTE + 1)),
              timestamps |-> recent ]
       ELSE [ limited |-> FALSE, backoffMs |-> 0, timestamps |-> Append(recent, t) ]

\* Mutant of isRateLimited: the timestamp is recorded for a throttled attempt
\* as well.
isRateLimited_AlwaysRecords(timestamps, t) ==
    LET recent == Recent(timestamps, t)
    IN IF Len(recent) >= MAX_REQUESTS_PER_MINUTE
       THEN [ limited |-> TRUE,
              backoffMs |-> Min(MaxBackoffSeconds,
                                2 ^ (Len(recent) - MAX_REQUESTS_PER_MINUTE + 1)),
              timestamps |-> Append(recent, t) ]
       ELSE [ limited |-> FALSE, backoffMs |-> 0, timestamps |-> Append(recent, t) ]

\* function isRateLimited(endpoint): [boolean, number], on the list of the
\* endpoint at time t; timestamps is the list it leaves behind.
isRateLimited(timestamps, t) ==
    LET recent == Recent(timestamps, t)
    IN IF Len(recent) >= MAX_REQUESTS_PER_MINUTE
       THEN [ limited |-> TRUE,
              backoffMs |-> Min(MaxBackoffSeconds,
                                2 ^ (Len(recent) - MAX_REQUESTS_PER_MINUTE + 1)),
              timestamps |-> recent ]
       ELSE [ limited |-> FALSE, backoffMs |-> 0, timestamps |-> Append(recent, t) ]

\* The key fetchWithRetry passes to isRateLimited: isRateLimited('kraken'),
\* whatever the endpoint.
RateKey(e) == "kraken"

\* Mutant of Retryable: every error status is retried.
Retryable_AnyError(status) == status >= 400

\* if (response.status === 429)
Retryable(status) == status = 429

\* response.ok
Ok(status) == status \in 200..299

\* Mutant of RequiresPair: only the handler of ohlc looks at pair.
RequiresPair_OhlcOnly(e) == e = "ohlc"

\* if (!pair) return res.status(400): the handlers of ohlc and ticker.
RequiresPair(e) == e \in {"ohlc", "ticker"}

\* What a proxy handler answers once fetchWithRetry has returned a response:
\* the upstream status if it is not ok, 400 if the body lists errors, the
\* data (200) otherwise.
ProxyAnswer(status, bodyError) ==
    IF ~Ok(status) THEN status ELSE IF bodyError THEN 400 ELSE 200

\* Math.pow(2, retries) * 1000
RetryBackoff(n) == 2 ^ n

\* Failed attempts so far: those retried already and those waiting for it.
RECURSIVE Failures(_)
Failures(n) ==
    IF n = 0 THEN 0
    ELSE Failures(n - 1) + retries[n] + (IF pc[n] = "backoff" THEN 1 ELSE 0)

\* The head of the loop of fetchWithRetry for request r on endpoint e: the
\* rate check, then either the wait for backoffMs or the call fetch(url).
Attempt(r, e) ==
    LET key == RateKey(e)
        res == isRateLimited(requestTimestamps[key], now)
    IN /\ requestTimestamps' = [requestTimestamps EXCEPT ![key] = res.timestamps]
       /\ IF Len(res.timestamps) > Len(Recent(requestTimestamps[key], now))
          THEN /\ stamps' = [stamps EXCEPT ![r] = @ + 1]
               /\ recordedFor' = [recordedFor EXCEPT ![e] = Append(Recent(@, now), now)]
          ELSE UNCHANGED << stamps, recordedFor >>
       /\ IF res.limited
          THEN /\ pc' = [pc EXCEPT ![r] = "throttled"]
               /\ wakeAt' = [wakeAt EXCEPT ![r] = now + res.backoffMs]
               /\ UNCHANGED calls
          ELSE /\ pc' = [pc EXCEPT ![r] = "fetching"]
               /\ calls' = [calls EXCEPT ![r] = @ + 1]
               /\ UNCHANGED wakeAt

\* app.get('/api/kraken/<e>') receives a request, up to its first await.
Request(r, e, pair) ==
    /\ UNCHANGED << relayVars, mirrorVars >>
    /\ pc[r] = "idle"
    /\ \A q \in Requests : q < r => pc[q] # "idle"
    /\ Cardinality({ q \in Requests : pc[q] \notin {"idle", "gone"} }) < MaxActive
    /\ endpoint' = [endpoint EXCEPT ![r] = e]
    /\ query' = [query EXCEPT ![r] = pair]
    /\ IF RequiresPair(e) /\ pair = ""
       THEN /\ answer' = [answer EXCEPT ![r] = 400]
            /\ pc' = [pc EXCEPT ![r] = "done"]
            /\ UNCHANGED << requestTimestamps, stamps, recordedFor, wakeAt, calls >>
       ELSE /\ Attempt(r, e)
            /\ UNCHANGED answer
    /\ UNCHANGED << now, retries, lastError, response, thrown, lastFailure >>

\* The wait for backoffMs of a throttled attempt is over: fetch(url).
ThrottleElapsed(r) ==
    /\ UNCHANGED << relayVars, mirrorVars, query >>
    /\ pc[r] = "throttled"
    /\ wakeAt[r] <= now
    /\ pc' = [pc EXCEPT ![r] = "fetching"]
    /\ calls' = [calls EXCEPT ![r] = @ + 1]
    /\ UNCHANGED << now, requestTimestamps, endpoint, retries, lastError, wakeAt,
                    response, thrown, answer, stamps, lastFailure, recordedFor >>

\* fetch(url) resolves with a response: a 429 is retried after the backoff,
\* every other response is returned to the proxy handler, which answers.
Response(r, status, bodyError) ==
    /\ UNCHANGED << relayVars, mirrorVars, query >>
    /\ pc[r] = "fetching"
    /\ bodyError => Ok(status)
    /\ Retryable(status) => Failures(MaxRequests) < MaxFailures
    /\ response' = [response EXCEPT ![r] = status]
    /\ IF Retryable(status)
       THEN /\ pc' = [pc EXCEPT ![r] = "backoff"]
            /\ wakeAt' = [wakeAt EXCEPT ![r] = now + RetryBackoff(retries[r])]
            /\ lastFailure' = [lastFailure EXCEPT ![r] = "429"]
            /\ UNCHANGED answer
       ELSE /\ pc' = [pc EXCEPT ![r] = "done"]
            /\ answer' = [answer EXCEPT ![r] = ProxyAnswer(status, bodyError)]
            /\ UNCHANGED << wakeAt, lastFailure >>
    /\ UNCHANGED << now, requestTimestamps, endpoint, retries, lastError, thrown,
                    calls, stamps, recordedFor >>

\* fetch(url) rejects: catch (error) { lastError = error; ... }
FetchError(r, error) ==
    /\ UNCHANGED << relayVars, mirrorVars, query >>
    /\ pc[r] = "fetching"
    /\ Failures(MaxRequests) < MaxFailures
    /\ lastError' = [lastError EXCEPT ![r] = error]
    /\ lastFailure' = [lastFailure EXCEPT ![r] = error]
    /\ pc' = [pc EXCEPT ![r] = "backoff"]
    /\ wakeAt' = [wakeAt EXCEPT ![r] = now + RetryBackoff(retries[r])]
    /\ UNCHANGED << now, requestTimestamps, endpoint, retries, response, thrown,
                    answer, calls, stamps, recordedFor >>

\* throw lastError || new Error(`Failed to fetch ${url} after ${maxRetries} retries`)
Thrown(error) == IF error # "undefined" THEN error ELSE "Failed to fetch"

\* The backoff after a 429 or an error is over: retries++, then the next
\* turn of the loop or, with the retries used up, the throw, which the proxy
\* handler catches and answers with 500.
BackoffElapsed(r) ==
    /\ UNCHANGED << relayVars, mirrorVars, query >>
    /\ pc[r] = "backoff"
    /\ wakeAt[r] <= now
    /\ retries' = [retries EXCEPT ![r] = @ + 1]
    /\ IF retries[r] + 1 < maxRetries
       THEN /\ Attempt(r, endpoint[r])
            /\ UNCHANGED << thrown, answer >>
       ELSE /\ thrown' = [thrown EXCEPT ![r] = Thrown(lastError[r])]
            /\ answer' = [answer EXCEPT ![r] = 500]
            /\ pc' = [pc EXCEPT ![r] = "done"]
            /\ UNCHANGED << requestTimestamps, stamps, recordedFor, wakeAt, calls >>
    /\ UNCHANGED << now, endpoint, lastError, response, lastFailure >>

\* The answer of the proxy handler has gone out, the request is over and the
\* locals of its handler and of its fetchWithRetry are no more.
Answered(r) ==
    /\ UNCHANGED << relayVars, mirrorVars >>
    /\ pc[r] = "done"
    /\ pc' = [pc EXCEPT ![r] = "gone"]
    /\ endpoint' = [endpoint EXCEPT ![r] = "none"]
    /\ query' = [query EXCEPT ![r] = ""]
    /\ retries' = [retries EXCEPT ![r] = 0]
    /\ lastError' = [lastError EXCEPT ![r] = "undefined"]
    /\ wakeAt' = [wakeAt EXCEPT ![r] = 0]
    /\ response' = [response EXCEPT ![r] = 0]
    /\ thrown' = [thrown EXCEPT ![r] = "none"]
    /\ answer' = [answer EXCEPT ![r] = 0]
    /\ calls' = [calls EXCEPT ![r] = 0]
    /\ stamps' = [stamps EXCEPT ![r] = 0]
    /\ lastFailure' = [lastFailure EXCEPT ![r] = "none"]
    /\ UNCHANGED << now, requestTimestamps, recordedFor >>

\* Time passes: a second while some request waits for a timer, a whole
\* window while no request is under way.  A timer that is due fires before
\* more time passes.
Tick(seconds) ==
    /\ UNCHANGED << relayVars, mirrorVars, query >>
    /\ now + seconds <= MaxTime
    /\ \A r \in Requests : pc[r] \in {"throttled", "backoff"} => wakeAt[r] > now
    /\ IF seconds = WindowSeconds
       THEN \A r \in Requests : pc[r] \in {"idle", "gone"}
       ELSE \E r \in Requests : pc[r] \in {"throttled", "backoff"}
    /\ now' = now + seconds
    /\ UNCHANGED << requestTimestamps, pc, endpoint, retries, lastError, wakeAt,
                    response, thrown, answer, calls, stamps, lastFailure, recordedFor >>

NextGateway ==
    \/ \E r \in Requests : \E e \in Endpoints : \E pair \in Pairs : Request(r, e, pair)
    \/ \E r \in Requests : ThrottleElapsed(r)
    \/ \E r \in Requests : \E status \in Statuses : \E bodyError \in BOOLEAN :
          Response(r, status, bodyError)
    \/ \E r \in Requests : \E error \in Errors : FetchError(r, error)
    \/ \E r \in Requests : BackoffElapsed(r)
    \/ \E r \in Requests : Answered(r)
    \/ \E seconds \in {1, WindowSeconds} : Tick(seconds)

SpecGateway == InitGateway /\ [][NextGateway]_vars

(***************************************************************************)
(* The browser hook useWebSocket (client/src/hooks/useWebSocket.ts) with   *)
(* its caller useKrakenData, on its own.  The relay is its environment: it *)
(* accepts or fails connections, closes them and sends frames.  Every      *)
(* handler and timer callback of the hook is one action.                   *)
(***************************************************************************)
HookSubs == subscriptionsRef[1]

\* Mutant of resetReconnectAttempts: the counter is left as it is.
resetReconnectAttempts_Keep == reconnectAttemptsRef

\* resetReconnectAttempts: reconnectAttemptsRef.current = 0
resetReconnectAttempts == 0

\* Mutant of exponentialDelay: no ceiling.
exponentialDelay_Uncapped(attempt) == baseReconnectDelay * 2 ^ attempt

\* Math.min(maxReconnectDelay, baseReconnectDelay * Math.pow(2, attempt))
exponentialDelay(attempt) == Min(maxReconnectDelay, baseReconnectDelay * 2 ^ attempt)

\* getReconnectDelay() for reconnectAttemptsRef.current = attempt and
\* Math.random() = random / RandomSteps: exponentialDelay + jitter, in whole
\* milliseconds (setTimeout drops the fraction).
\* The values of Math.random() and the outcomes of new WebSocket(wsUrl) are
\* explored in scope "backoff".
Randoms == IF scope = "backoff" THEN 0..(RandomSteps - 1) ELSE {0}
Throws == IF scope = "backoff" THEN BOOLEAN ELSE {FALSE}
getReconnectDelay(attempt, random) ==
    exponentialDelay(attempt)
    + (random * 2 * exponentialDelay(attempt)) \div (10 * RandomSteps)

\* Mutant of MayReconnect: the close code is not looked at.
MayReconnect_AnyCode(code, attempts) == attempts < maxReconnectAttempts

\* Mutant of MayReconnect: the number of attempts is not looked at.
MayReconnect_NoLimit(code, attempts) == code # 1000

\* event.code !== 1000 && reconnectAttemptsRef.current < maxReconnectAttempts
MayReconnect(code, attempts) == code # 1000 /\ attempts < maxReconnectAttempts

\* The frames the relay's end may send: {type:'status', connected}, {type:'pong'},
\* an OHLC update of the upstream [channelID, [time, ...], 'ohlc', pair], and a
\* text that is not JSON.
StatusFrame(connected) == [ type |-> "status", connected |-> connected ]
PongFrame == [ type |-> "pong" ]
OhlcFrame(time) == [ channelName |-> "ohlc", time |-> time ]
RawFrame == [ raw |-> "text" ]
Frames ==
    { StatusFrame(TRUE), StatusFrame(FALSE), PongFrame, RawFrame }
    \cup { OhlcFrame(time) : time \in 1..MaxCandleTime }

\* JSON.parse(event.data) returns a value (it throws for a text that is not JSON)
IsJson(frame) == "raw" \notin DOMAIN frame
\* Mutant of TypeOf: the type of a frame is not seen.
TypeOf_Undefined(data) == "undefined"

\* data.type
TypeOf(data) == IF "type" \in DOMAIN data THEN data.type ELSE "undefined"

\* newData.slice(-500), with the model's bound for 500
LastCandles(data) ==
    IF Len(data) > MaxCandles THEN SubSeq(data, Len(data) - MaxCandles + 1, Len(data))
    ELSE data

\* setOhlcData(prevData => ...): a candle of the time of the last one replaces
\* it, another one is appended.
setOhlcData(prevData, update) ==
    IF prevData # <<>> /\ prevData[Len(prevData)].time = update.time
    THEN [prevData EXCEPT ![Len(prevData)] = update]
    ELSE LastCandles(Append(prevData, update))

\* handleWsMessage(message) of useKrakenData, its effect on ohlcData: a status
\* object and a text that is not JSON are skipped, an OHLC update is applied.
handleWsMessage(message, prevData) ==
    IF TypeOf(message) = "status" THEN prevData
    ELSE IF ~IsJson(message) THEN prevData
    ELSE IF "channelName" \in DOMAIN message /\ message.channelName = "ohlc"
         THEN setOhlcData(prevData, [time |-> message.time])
         ELSE prevData

\* connectWebSocket(), called with socketRef.current = ref, the sockets in
\* states and timersLeft retry timers pending.  new WebSocket(wsUrl) throws
\* (throws) or returns a socket that is connecting, whose onopen calls the
\* onOpen of this connectWebSocket: it subscribes to captured.
connectWebSocket(ref, states, timersLeft, throws, random, captured) ==
    IF ref # NoSocket /\ states[ref] = "OPEN"
    THEN \* 'WebSocket is already connected'
         /\ socketRef' = ref
         /\ socketState' = states
         /\ retryTimers' = timersLeft
         /\ UNCHANGED << socketsCreated, reconnectAttemptsRef, hookError, delay, onOpenOf >>
    ELSE IF throws
    THEN \* catch (err)
         /\ hookError' = "Error setting up WebSocket"
         /\ socketRef' = ref
         /\ socketState' = states
         /\ IF reconnectAttemptsRef < maxReconnectAttempts
            THEN /\ reconnectAttemptsRef' = reconnectAttemptsRef + 1
                 /\ delay' = getReconnectDelay(reconnectAttemptsRef', random)
                 /\ retryTimers' = timersLeft + 1
            ELSE /\ retryTimers' = timersLeft
                 /\ UNCHANGED << reconnectAttemptsRef, delay >>
         /\ UNCHANGED << socketsCreated, onOpenOf >>
    ELSE /\ socketsCreated < MirrorSockets
         /\ socketsCreated' = socketsCreated + 1
         /\ socketState' = [states EXCEPT ![socketsCreated + 1] = "CONNECTING"]
         /\ socketRef' = socketsCreated + 1
         /\ onOpenOf' = [onOpenOf EXCEPT ![socketsCreated + 1] = captured]
         /\ retryTimers' = timersLeft
         /\ UNCHANGED << reconnectAttemptsRef, hookError, delay >>

\* disconnect(): close(1000) if the current socket is open; what it leaves of
\* socketState and closeCode (socketRef.current becomes null).
DisconnectStates ==
    IF socketRef # NoSocket /\ socketState[socketRef] = "OPEN"
    THEN [socketState EXCEPT ![socketRef] = "CLOSING"]
    ELSE socketState
DisconnectCodes ==
    IF socketRef # NoSocket /\ socketState[socketRef] = "OPEN"
    THEN [closeCode EXCEPT ![socketRef] = 1000]
    ELSE closeCode

\* useEffect(() => { connectWebSocket(); ... }) on mount.  The effects of
\* useKrakenData run for the first time too: not connected, so no timer.
Mount(throws, random) ==
    /\ UNCHANGED << gatewayVars, relayRest, loads, selectionVars, subscriptionsRef >>
    /\ mounted = "no"
    /\ mounted' = "yes"
    /\ connectWebSocket(socketRef, socketState, retryTimers, throws, random, selected)
    /\ UNCHANGED << closeCode, isConnected, reconnectTimers, sent, received, handled,
                    hookCalls, renders, ohlcData >>

\* The effect runs again after a render (connectWebSocket is a new function
\* whenever onOpen is, and useKrakenData passes a new onOpen on every render):
\* disconnect(), then connectWebSocket().  The effect "load data when pair
\* or interval changes" of useKrakenData runs again if selectedPair, interval
\* or isConnected are not what they were at its last run: its cleanup clears
\* its timer, and with isConnected it sets the timer anew.
Rerender(throws, random) ==
    /\ UNCHANGED << gatewayVars, relayRest, loads, subscriptionsRef >>
    /\ mounted = "yes"
    /\ renders < MaxRenders
    /\ renders' = renders + 1
    /\ closeCode' = DisconnectCodes
    /\ isConnected' = FALSE
    /\ connectWebSocket(NoSocket, DisconnectStates, retryTimers, throws, random, selected)
    /\ IF << selected, isConnected >> # effectDeps
       THEN /\ effectDeps' = << selected, isConnected >>
            /\ effectTimer' = IF isConnected THEN {selected} ELSE {}
       ELSE UNCHANGED << effectDeps, effectTimer >>
    /\ UNCHANGED << selected, selects, subscribeTimers >>
    /\ UNCHANGED << mounted, reconnectTimers, sent, received, handled, hookCalls,
                    ohlcData >>

\* The cleanups of the effects on unmount: disconnect(), clearTimeout(timer)
Unmount ==
    /\ UNCHANGED << gatewayVars, relayRest, loads, subscriptionsRef >>
    /\ mounted = "yes"
    /\ mounted' = "gone"
    /\ effectTimer' = {}
    /\ UNCHANGED << selected, selects, effectDeps, subscribeTimers, onOpenOf >>
    /\ socketState' = DisconnectStates
    /\ closeCode' = DisconnectCodes
    /\ socketRef' = NoSocket
    /\ isConnected' = FALSE
    /\ UNCHANGED << socketsCreated, reconnectAttemptsRef, hookError, reconnectTimers,
                    retryTimers, delay, sent, received, handled, hookCalls,
                    renders, ohlcData >>

\* socket.onopen, with the onOpen callback of useKrakenData, which calls
\* subscribe(onOpenOf[s]): that one writes to socketRef.current.
SocketOnOpen(s) ==
    /\ UNCHANGED << gatewayVars, relayRest, loads, selectionVars, onOpenOf >>
    /\ socketState[s] = "CONNECTING"
    /\ socketState' = [socketState EXCEPT ![s] = "OPEN"]
    /\ isConnected' = TRUE
    /\ hookError' = "null"
    /\ reconnectAttemptsRef' = resetReconnectAttempts
    /\ IF socketRef # NoSocket /\ socketState'[socketRef] = "OPEN"
       THEN /\ Len(sent[socketRef]) < MaxSent
            /\ sent' = [t \in BrowserSockets |->
                          (IF t = s THEN sent[t] \o Resubscribe(HookSubs) ELSE sent[t])
                          \o (IF t = socketRef
                              THEN <<SubscribeMessage(onOpenOf[s])>> ELSE <<>>)]
       ELSE sent' = [sent EXCEPT ![s] = @ \o Resubscribe(HookSubs)]
    /\ subscriptionsRef' = [subscriptionsRef EXCEPT ![1] = PushIfNew(@, onOpenOf[s])]
    /\ UNCHANGED << mounted, socketRef, closeCode, socketsCreated, reconnectTimers,
                    retryTimers, delay, received, handled, hookCalls, renders, ohlcData >>

\* socket.onmessage for a frame of the relay
SocketOnMessage(s, frame) ==
    /\ UNCHANGED << gatewayVars, relayRest, loads, selectionVars, onOpenOf, subscriptionsRef >>
    /\ socketState[s] = "OPEN"
    /\ Len(received) < MirrorFrames
    /\ received' = Append(received, frame)
    /\ IF IsJson(frame) /\ TypeOf(frame) = "status"
       THEN \* setIsConnected(data.connected); resubscribe if connected; return
            /\ isConnected' = frame.connected
            /\ IF frame.connected /\ HookSubs # <<>>
               THEN /\ Len(sent[s]) < MaxSent
                    /\ sent' = [sent EXCEPT ![s] = @ \o Resubscribe(HookSubs)]
               ELSE UNCHANGED sent
            /\ UNCHANGED << handled, ohlcData >>
       ELSE IF IsJson(frame) /\ TypeOf(frame) = "pong"
       THEN UNCHANGED << isConnected, sent, handled, ohlcData >>
       ELSE \* onMessage(data), or onMessage(event.data) for a text that is not JSON
            /\ handled' = Append(handled, frame)
            /\ ohlcData' = handleWsMessage(frame, ohlcData)
            /\ UNCHANGED << isConnected, sent >>
    /\ UNCHANGED << mounted, socketRef, socketState, closeCode, socketsCreated,
                    reconnectAttemptsRef, hookError, reconnectTimers, retryTimers, delay,
                    hookCalls, renders >>

\* The connection of socket s fails or breaks: socket.onerror runs, the close
\* event (code 1006) follows.
SocketOnError(s) ==
    /\ UNCHANGED << gatewayVars, relayRest, loads, selectionVars, onOpenOf, subscriptionsRef >>
    /\ socketState[s] \in {"CONNECTING", "OPEN"}
    /\ socketState' = [socketState EXCEPT ![s] = "CLOSING"]
    /\ closeCode' = [closeCode EXCEPT ![s] = 1006]
    /\ hookError' = "WebSocket connection error"
    /\ UNCHANGED << mounted, socketRef, socketsCreated, reconnectAttemptsRef, isConnected,
                    reconnectTimers, retryTimers, delay, sent, received, handled,
                    hookCalls, renders, ohlcData >>

\* The relay's end closes the open socket s with a close frame: code 1000, or
\* another one (1005, no status: what ws.close() without a code gives).
SocketClosing(s, code) ==
    /\ UNCHANGED << gatewayVars, relayRest, loads, selectionVars, onOpenOf, subscriptionsRef >>
    /\ socketState[s] = "OPEN"
    /\ socketState' = [socketState EXCEPT ![s] = "CLOSING"]
    /\ closeCode' = [closeCode EXCEPT ![s] = code]
    /\ UNCHANGED << mounted, socketRef, socketsCreated, reconnectAttemptsRef, isConnected,
                    hookError, reconnectTimers, retryTimers, delay, sent, received,
                    handled, hookCalls, renders, ohlcData >>

\* connectionTimeout fires (10 s after new WebSocket, cleared by onopen and
\* onclose): socket.close() of a socket that is not open.  Whether the browser
\* fires an error event for it is not the hook's choice.
ConnectionTimeout(s, fires) ==
    /\ UNCHANGED << gatewayVars, relayRest, loads, selectionVars, onOpenOf, subscriptionsRef >>
    /\ socketState[s] = "CONNECTING"
    /\ socketState' = [socketState EXCEPT ![s] = "CLOSING"]
    /\ closeCode' = [closeCode EXCEPT ![s] = 1006]
    /\ hookError' = IF fires THEN "WebSocket connection error" ELSE hookError
    /\ UNCHANGED << mounted, socketRef, socketsCreated, reconnectAttemptsRef, isConnected,
                    reconnectTimers, retryTimers, delay, sent, received, handled,
                    hookCalls, renders, ohlcData >>

\* socket.onclose.  The socket is gone afterwards: the model forgets its close
\* code and what was written to it.
SocketOnClose(s, random) ==
    /\ UNCHANGED << gatewayVars, relayRest, loads, selectionVars, onOpenOf, subscriptionsRef >>
    /\ socketState[s] = "CLOSING"
    /\ socketState' = [socketState EXCEPT ![s] = "CLOSED"]
    /\ closeCode' = [closeCode EXCEPT ![s] = 0]
    /\ sent' = [sent EXCEPT ![s] = <<>>]
    /\ isConnected' = FALSE
    /\ IF MayReconnect(closeCode[s], reconnectAttemptsRef)
       THEN /\ reconnectAttemptsRef' = reconnectAttemptsRef + 1
            /\ delay' = getReconnectDelay(reconnectAttemptsRef', random)
            /\ reconnectTimers' = reconnectTimers \cup {s}
            /\ UNCHANGED hookError
       ELSE /\ hookError' = IF reconnectAttemptsRef >= maxReconnectAttempts
                            THEN "Failed to connect after multiple attempts"
                            ELSE hookError
            /\ UNCHANGED << reconnectAttemptsRef, delay, reconnectTimers >>
    /\ UNCHANGED << mounted, socketRef, socketsCreated, retryTimers, received, handled,
                    hookCalls, renders, ohlcData >>

\* The reconnect timer of socket s fires: setTimeout(() => { if
\* (socketRef.current !== socket) return; if (readyState !== OPEN)
\* connectWebSocket() }, delay)
ReconnectTimeout(s, throws, random) ==
    /\ UNCHANGED << gatewayVars, relayRest, loads, selectionVars, subscriptionsRef >>
    /\ s \in reconnectTimers
    /\ reconnectTimers' = reconnectTimers \ {s}
    /\ IF socketRef # s
       THEN UNCHANGED << socketRef, socketState, socketsCreated, reconnectAttemptsRef,
                         hookError, retryTimers, delay, onOpenOf >>
       ELSE connectWebSocket(socketRef, socketState, retryTimers, throws, random,
                             onOpenOf[s])
    /\ UNCHANGED << mounted, closeCode, isConnected, sent, received, handled, hookCalls,
                    renders, ohlcData >>

\* A timer of the catch block fires: setTimeout(connectWebSocket, delay).
\* new WebSocket(wsUrl) throws in scope "backoff" only, where the selection
\* stays what it was when this connectWebSocket was made.
RetryTimeout(throws, random) ==
    /\ UNCHANGED << gatewayVars, relayRest, loads, selectionVars, subscriptionsRef >>
    /\ retryTimers > 0
    /\ connectWebSocket(socketRef, socketState, retryTimers - 1, throws, random, selected)
    /\ UNCHANGED << mounted, closeCode, isConnected, reconnectTimers, sent, received,
                    handled, hookCalls, renders, ohlcData >>

\* The ping interval of the open socket s fires (every 30 s).
PingInterval(s) ==
    /\ UNCHANGED << gatewayVars, relayRest, loads, selectionVars, onOpenOf, subscriptionsRef >>
    /\ socketState[s] = "OPEN"
    /\ Len(sent[s]) < MaxSent
    /\ Cardinality({ i \in 1..Len(sent[s]) : sent[s][i] = [type |-> "ping"] }) < MaxPings
    /\ sent' = [sent EXCEPT ![s] = Append(@, [type |-> "ping"])]
    /\ UNCHANGED << mounted, socketRef, socketState, closeCode, socketsCreated,
                    reconnectAttemptsRef, isConnected, hookError, reconnectTimers,
                    retryTimers, delay, received, handled, hookCalls, renders, ohlcData >>

\* subscribe(subscription) of the hook, called by useKrakenData
HookSubscribe(subscription) ==
    /\ UNCHANGED << gatewayVars, relayRest, loads, selectionVars, onOpenOf >>
    /\ mounted = "yes"
    /\ hookCalls < MaxHookCalls
    /\ hookCalls' = hookCalls + 1
    /\ IF socketRef = NoSocket \/ socketState[socketRef] # "OPEN"
       THEN UNCHANGED sent
       ELSE /\ Len(sent[socketRef]) < MaxSent
            /\ sent' = [sent EXCEPT ![socketRef] = Append(@, SubscribeMessage(subscription))]
    /\ subscriptionsRef' = [subscriptionsRef EXCEPT ![1] = PushIfNew(@, subscription)]
    /\ UNCHANGED << mounted, socketRef, socketState, closeCode, socketsCreated,
                    reconnectAttemptsRef, isConnected, hookError, reconnectTimers,
                    retryTimers, delay, received, handled, renders, ohlcData >>

\* unsubscribe(subscription) of the hook, called by useKrakenData
HookUnsubscribe(subscription) ==
    /\ UNCHANGED << gatewayVars, relayRest, loads, selectionVars, onOpenOf >>
    /\ mounted = "yes"
    /\ hookCalls < MaxHookCalls
    /\ hookCalls' = hookCalls + 1
    /\ IF socketRef = NoSocket \/ socketState[socketRef] # "OPEN"
       THEN UNCHANGED sent
       ELSE /\ Len(sent[socketRef]) < MaxSent
            /\ sent' = [sent EXCEPT ![socketRef] =
                           Append(@, UnsubscribeMessage(subscription))]
    /\ subscriptionsRef' = [subscriptionsRef EXCEPT ![1] = FilterName(@, subscription.name)]
    /\ UNCHANGED << mounted, socketRef, socketState, closeCode, socketsCreated,
                    reconnectAttemptsRef, isConnected, hookError, reconnectTimers,
                    retryTimers, delay, received, handled, renders, ohlcData >>

\* fetchHistoricalData(): fetchHistoricalOHLC resolves with the candles of the
\* answer, count of them, in the order of their times, and setOhlcData(ohlc)
\* takes them all.
HistoricalCandles(count) == [i \in 1..count |-> [time |-> i]]
HistoricalLoad(count) ==
    /\ UNCHANGED << gatewayVars, relayRest, subscriptionsRef, selectionVars, onOpenOf >>
    /\ mounted = "yes"
    /\ loads < MaxLoads
    /\ loads' = loads + 1
    /\ ohlcData' = HistoricalCandles(count)
    /\ UNCHANGED << mounted, socketRef, socketState, closeCode, socketsCreated,
                    reconnectAttemptsRef, isConnected, hookError, reconnectTimers,
                    retryTimers, delay, sent, received, handled, hookCalls, renders >>

\* setSelectedPair(pair) / setInterval(interval) of the pair and interval
\* selectors: the state changes, the render follows.
Select(subscription) ==
    /\ UNCHANGED << gatewayVars, relayRest, loads, subscriptionsRef, onOpenOf >>
    /\ mounted = "yes"
    /\ selects < MaxSelects
    /\ subscription # selected
    /\ selected' = subscription
    /\ selects' = selects + 1
    /\ UNCHANGED << mounted, socketRef, socketState, closeCode, socketsCreated,
                    reconnectAttemptsRef, isConnected, hookError, reconnectTimers,
                    retryTimers, delay, sent, received, handled, hookCalls, renders,
                    ohlcData, effectDeps, effectTimer, subscribeTimers >>

\* The timer of the effect fires (100 ms): unsubscribe({ name, interval, token })
\* with the pair and interval of the render that set the timer, then
\* setTimeout(() => subscribe(...), 300).
EffectTimeout(subscription) ==
    /\ UNCHANGED << gatewayVars, relayRest, loads, onOpenOf >>
    /\ subscription \in effectTimer
    /\ effectTimer' = {}
    /\ subscribeTimers' = subscribeTimers \cup {subscription}
    /\ IF socketRef = NoSocket \/ socketState[socketRef] # "OPEN"
       THEN UNCHANGED sent
       ELSE /\ Len(sent[socketRef]) < MaxSent
            /\ sent' = [sent EXCEPT ![socketRef] =
                           Append(@, UnsubscribeMessage(subscription))]
    /\ subscriptionsRef' = [subscriptionsRef EXCEPT ![1] = FilterName(@, subscription.name)]
    /\ UNCHANGED << mounted, socketRef, socketState, closeCode, socketsCreated,
                    reconnectAttemptsRef, isConnected, hookError, reconnectTimers,
                    retryTimers, delay, received, handled, hookCalls, renders,
                    ohlcData, selected, selects, effectDeps >>

\* The inner timer fires (300 ms later): subscribe({ name, interval, token })
\* with the same pair and interval.  No cleanup clears this timer.
SubscribeTimeout(subscription) ==
    /\ UNCHANGED << gatewayVars, relayRest, loads, onOpenOf >>
    /\ subscription \in subscribeTimers
    /\ subscribeTimers' = subscribeTimers \ {subscription}
    /\ IF socketRef = NoSocket \/ socketState[socketRef] # "OPEN"
       THEN UNCHANGED sent
       ELSE /\ Len(sent[socketRef]) < MaxSent
            /\ sent' = [sent EXCEPT ![socketRef] = Append(@, SubscribeMessage(subscription))]
    /\ subscriptionsRef' = [subscriptionsRef EXCEPT ![1] = PushIfNew(@, subscription)]
    /\ UNCHANGED << mounted, socketRef, socketState, closeCode, socketsCreated,
                    reconnectAttemptsRef, isConnected, hookError, reconnectTimers,
                    retryTimers, delay, received, handled, hookCalls, renders,
                    ohlcData, selected, selects, effectDeps, effectTimer >>

NextMirror ==
    \/ \E throws \in Throws : \E random \in Randoms : Mount(throws, random)
    \/ \E throws \in Throws : \E random \in Randoms : Rerender(throws, random)
    \/ Unmount
    \/ \E s \in BrowserSockets : SocketOnOpen(s)
    \/ \E s \in BrowserSockets : \E frame \in Frames : SocketOnMessage(s, frame)
    \/ \E s \in BrowserSockets : SocketOnError(s)
    \/ \E s \in BrowserSockets : \E code \in {1000, 1005} : SocketClosing(s, code)
    \/ \E s \in BrowserSockets : \E fires \in BOOLEAN : ConnectionTimeout(s, fires)
    \/ \E s \in BrowserSockets : \E random \in Randoms : SocketOnClose(s, random)
    \/ \E s \in BrowserSockets : \E throws \in Throws : \E random \in Randoms :
          ReconnectTimeout(s, throws, random)
    \/ \E throws \in Throws : \E random \in Randoms : RetryTimeout(throws, random)
    \/ \E s \in BrowserSockets : PingInterval(s)
    \/ \E subscription \in Subscriptions \cup Selections : HookSubscribe(subscription)
    \/ \E subscription \in Subscriptions \cup Selections : HookUnsubscribe(subscription)
    \/ \E count \in 0..MaxHistory : HistoricalLoad(count)
    \/ \E subscription \in Selections : Select(subscription)
    \/ \E subscription \in Selections : EffectTimeout(subscription)
    \/ \E subscription \in Selections : SubscribeTimeout(subscription)

SpecMirror == InitMirror /\ [][NextMirror]_vars

(***************************************************************************)
(* Properties.                                                             *)
(***************************************************************************)
IsOpen(s) == s # NoSocket /\ readyState[s] = "OPEN"
LiveSockets == { s \in Socks : IsLive(s) }

\* Subscribe messages for key on socket s that no later unsubscribe withdrew,
\* as positions in sentUp[s].
ActiveSubscribes(s, key) ==
    { j \in 1..Len(sentUp[s]) :
        /\ sentUp[s][j].msg.name = "subscribe"
        /\ SubKey(sentUp[s][j].msg) = key
        /\ \A k \in (j + 1)..Len(sentUp[s]) :
              ~(/\ sentUp[s][k].msg.name = "unsubscribe"
                /\ SubKey(sentUp[s][k].msg) = key) }

AllKeys == { SubKey(SubscribeMessage(subscription)) : subscription \in Subscriptions }

\* Nothing is on its way between the hooks and the relay.
Quiescent == \A c \in Clients : toServer[c] = <<>> /\ statusInFlight[c] = 0

\* C1: in every reachable state at most one upstream socket is Open or
\* Connecting.
C1_AtMostOneUpstream == Cardinality(LiveSockets) <= 1

\* C2: a connection arriving while krakenClients holds MAX_CLIENTS sessions is
\* sent an error, closed and not added, the admitted sessions stay as they
\* are; the client set never holds more than MAX_CLIENTS sessions, and a
\* rejected connection is never in it.
C2_AdmissionControl ==
    /\ [](/\ Cardinality(krakenClients) <= MAX_CLIENTS
          /\ \A c \in Clients : lastStatus[c] = "error" =>
                c \notin krakenClients /\ clientState[c] = "CLOSING")
    /\ [][\A c \in Clients :
            (/\ clientState[c] = "NONE"
             /\ clientState'[c] # "NONE"
             /\ Cardinality(krakenClients) = MAX_CLIENTS)
            => /\ lastStatus'[c] = "error"
               /\ clientState'[c] = "CLOSING"
               /\ krakenClients' = krakenClients
               /\ \A d \in krakenClients : clientState'[d] = clientState[d]]_vars

\* C2 witness: a connection has been rejected while MAX_CLIENTS admitted
\* sessions are open.
C2_Rejected ==
    \E c \in Clients :
        /\ clientState[c] = "CLOSING"
        /\ lastStatus[c] = "error"
        /\ c \notin krakenClients
        /\ Cardinality(krakenClients) = MAX_CLIENTS
        /\ \A d \in krakenClients : clientState[d] = "OPEN"

\* C3: when the shared link is open again after a forced disconnect and
\* nothing is in flight any more, every subscription that a connected client
\* held at the disconnect and still holds has reached the new link exactly
\* once.
C3_ResubscriptionReplay ==
    \A s \in Socks :
        (/\ sharedKrakenWs = s
         /\ readyState[s] = "OPEN"
         /\ \E t \in Socks : t < s /\ closedBy[t] = "remote" /\ readyState[t] = "CLOSED"
         /\ Quiescent)
        => \A key \in heldAtDrop \cap HeldKeys :
              Cardinality(ActiveSubscribes(s, key)) = 1

\* C4: whenever the client set is empty, no upstream socket is Open or
\* Connecting.
C4_TornDownWhenIdle == krakenClients = {} => LiveSockets = {}

\* C5: no upstream socket is created by a step that leaves the client set
\* empty: while there is no client, no connection attempt starts.
C5_NoAttemptWhileIdle == [][created' > created => krakenClients' # {}]_vars

\* C6: whenever the newest upstream socket has closed without the relay having
\* closed it and a client session remains, a new upstream socket is eventually created
\* (as long as the model may still create one).
C6_ReconnectEventually ==
    \A k \in 1..LinkSockets :
        (/\ created = k
         /\ k \in Socks
         /\ readyState[k] = "CLOSED"
         /\ closedBy[k] \in {"remote", "failed"}
         /\ krakenClients # {})
        ~> (created > k \/ k >= MaxSockets)

\* C6 witness: after a forced close with a client present, the relay has
\* created the next upstream socket.
C6_Reconnected ==
    \E s \in Socks :
        /\ readyState[s] = "CLOSED"
        /\ closedBy[s] \in {"remote", "failed"}
        /\ krakenClients # {}
        /\ created = s + 1
        /\ sharedKrakenWs = s + 1
        /\ readyState[s + 1] = "CONNECTING"

\* C7: a message received from an admitted client is written to the shared
\* upstream link if that link is Open at that moment, and to no socket
\* otherwise.
C7_ForwardIffOpen ==
    [][\A c \in Clients :
          (/\ c \in krakenClients
           /\ clientState[c] = "OPEN"
           /\ clientState'[c] = "OPEN"
           /\ toServer[c] # <<>>
           /\ toServer'[c] = Tail(toServer[c]))
          => IF IsOpen(sharedKrakenWs)
             THEN sentUp' = [sentUp EXCEPT ![sharedKrakenWs] =
                                Append(@, [from |-> c, msg |-> Head(toServer[c])])]
             ELSE sentUp' = sentUp]_vars

\* Client d subscribed key on socket s before position j and has not
\* unsubscribed it before j.
SubscribedBefore(s, key, d, j) ==
    \E i \in 1..(j - 1) :
        /\ sentUp[s][i] = [from |-> d, msg |-> [name |-> "subscribe"] @@ key]
        /\ \A k \in (i + 1)..(j - 1) :
              sentUp[s][k] # [from |-> d, msg |-> [name |-> "unsubscribe"] @@ key]

\* C8: on one upstream link a subscription is never subscribed by the
\* messages of two distinct clients at once, and an unsubscribe message for it
\* is not sent while another connected client that subscribed it still holds
\* it.
C8_ReferenceCounting ==
    \A s \in Socks : \A key \in AllKeys :
        /\ Cardinality({ sentUp[s][j].from : j \in ActiveSubscribes(s, key) }) <= 1
        /\ (/\ sentUp[s] # <<>>
            /\ sentUp[s][Len(sentUp[s])].msg.name = "unsubscribe"
            /\ SubKey(sentUp[s][Len(sentUp[s])].msg) = key)
           => \A d \in OpenClients \ {sentUp[s][Len(sentUp[s])].from} :
                 ~(key \in HeldBy(d) /\ SubscribedBefore(s, key, d, Len(sentUp[s])))

\* C9: the same client adding the same subscription twice in succession puts
\* one subscribe message on the upstream link, and the hook records the
\* subscription once.
C9_IdempotentSubscribe ==
    /\ \A s \in Socks : \A key \in AllKeys : \A c \in Clients :
          Cardinality({ j \in ActiveSubscribes(s, key) : sentUp[s][j].from = c }) <= 1
    /\ \A c \in Clients : \A i, j \in 1..Len(subscriptionsRef[c]) :
          subscriptionsRef[c][i] = subscriptionsRef[c][j] => i = j

\* C10: a data frame is delivered only to clients that hold a subscription for
\* its channel and pair.
C10_SelectiveDelivery ==
    [][\A c \in Clients :
          (/\ Len(delivered'[c]) > Len(delivered[c])
           /\ ~IsControl(delivered'[c][Len(delivered'[c])]))
          => [ subscription |-> [ name |-> delivered'[c][Len(delivered'[c])].channelName,
                                  interval |-> delivered'[c][Len(delivered'[c])].interval ],
               pair |-> delivered'[c][Len(delivered'[c])].pair ] \in HeldBy(c)]_vars

\* C11: what a client has received are upstream frames as the upstream
\* emitted them, in the order of their emission and none of them twice.
C11_OrderPreserved ==
    \A c \in Clients :
        /\ \A i \in 1..Len(delivered[c]) :
              /\ delivered[c][i].n \in 1..Len(emitted)
              /\ delivered[c][i] = emitted[delivered[c][i].n]
        /\ \A i, j \in 1..Len(delivered[c]) :
              i < j => delivered[c][i].n < delivered[c][j].n

\* C11 witness: two open clients have each received two frames of the upstream.
C11_TwoFramesReceived ==
    /\ Len(emitted) = 2
    /\ Cardinality(OpenClients) = 2
    /\ \A c \in OpenClients : Len(delivered[c]) = 2

\* Reconnect attempts that failed in a row up to now: the newest sockets, the
\* first one (the initial connection) aside, that closed without having opened.
maxAttempts == 1
FailedReconnects ==
    Cardinality({ k \in 2..created :
                    \A j \in k..created :
                        readyState[j] = "CLOSED" /\ closedBy[j] = "failed" })

\* C12: once more than maxAttempts reconnect attempts have failed in a row,
\* the relay schedules no further attempt.
C12_BoundedReconnect ==
    [][FailedReconnects' > maxAttempts => timers' <= timers]_vars

\* C13: the step that admits a client sends it a status frame whose connected
\* flag is true exactly when the shared upstream link is Open, before the
\* handler as well as after it.
C13_StatusOnAdmission ==
    [][\A c \in Clients :
          (c \notin krakenClients /\ c \in krakenClients')
          => /\ lastStatus'[c] \in {"true", "false"}
             /\ lastStatus'[c] = "true" <=> IsOpen(sharedKrakenWs)
             /\ lastStatus'[c] = "true" <=>
                   (sharedKrakenWs' # NoSocket /\ readyState'[sharedKrakenWs'] = "OPEN")]_vars

\* C13 witness: a client admitted while the shared link is Open holds the
\* status frame connected: true, next to a client admitted before the link
\* opened.
C13_AdmittedWhileOpen ==
    \E c, d \in OpenClients :
        /\ c # d
        /\ IsOpen(sharedKrakenWs)
        /\ krakenWs[c] = sharedKrakenWs
        /\ lastStatus[c] = "true"
        /\ statusInFlight[c] = 1
        /\ statusInFlight[d] = 0

\* No event of the relay is pending: nothing is in flight between hooks and
\* relay, no timer is set, no socket is connecting or closing.
NoEventPending ==
    /\ Quiescent
    /\ timers = 0
    /\ \A s \in Socks : readyState[s] \notin {"CONNECTING", "CLOSING"}
    /\ \A c \in Clients : clientState[c] # "CLOSING"

\* C14: whenever no event is pending, the last status frame sent to an open
\* client says connected exactly when an upstream link is Open.
C14_StatusCurrent ==
    NoEventPending
    => \A c \in OpenClients :
          lastStatus[c] = "true" <=> \E s \in Socks : readyState[s] = "OPEN"

\* C15: an attempt the rate check held back is sent upstream only when the
\* window of the last minute holds fewer than MAX_REQUESTS_PER_MINUTE
\* timestamps.
C15_HeldUntilAdmitted ==
    [][\A r \in Requests :
          (pc[r] = "throttled" /\ calls'[r] > calls[r])
          => Len(Recent(requestTimestamps[RateKey(endpoint[r])], now))
                < MAX_REQUESTS_PER_MINUTE]_vars

\* C16: a step records a timestamp only for an attempt it sends upstream, and
\* the step in which the rate check holds an attempt back records none.
C16_StampOnlyWhenSent ==
    [][/\ \A k \in Keys :
             requestTimestamps'[k] = Append(Recent(requestTimestamps[k], now), now)
             => \E r \in Requests : calls'[r] = calls[r] + 1
       /\ \A r \in Requests :
             /\ stamps'[r] > stamps[r] => calls'[r] = calls[r] + 1
             /\ (pc[r] # "throttled" /\ pc'[r] = "throttled")
                => /\ stamps'[r] = stamps[r]
                   /\ \A k \in Keys :
                         requestTimestamps'[k] \in
                            {requestTimestamps[k], Recent(requestTimestamps[k], now)}]_vars

\* C16 witness: with the window full, one attempt was sent and has its
\* timestamp, another is held back and has none.
C16_HeldBackUnstamped ==
    \E r, q \in Requests :
        /\ pc[r] = "throttled" /\ stamps[r] = 0 /\ calls[r] = 0
        /\ pc[q] = "fetching" /\ stamps[q] = 1 /\ calls[q] = 1
        /\ Len(requestTimestamps[RateKey(endpoint[r])]) = MAX_REQUESTS_PER_MINUTE

\* C17: a request makes at most maxRetries upstream calls, and what
\* fetchWithRetry throws after them is the last failure it saw.
C17_RetryPolicy ==
    \A r \in Requests :
        /\ calls[r] <= maxRetries
        /\ thrown[r] # "none"
           => /\ calls[r] = maxRetries
              /\ thrown[r] = lastFailure[r]

\* C18: an upstream response that is neither 2xx nor 429 ends the request in
\* the step it arrives: no further call, one call per attempt, and the proxy
\* answers with the upstream status.
C18_NoRetryOnOtherStatus ==
    [][\A r \in Requests :
          /\ (/\ pc[r] = "fetching"
              /\ pc'[r] # "fetching"
              /\ response'[r] \notin {0, 429}
              /\ ~Ok(response'[r]))
             => /\ pc'[r] = "done"
                /\ answer'[r] = response'[r]
                /\ calls'[r] = calls[r]
                /\ calls'[r] = retries'[r] + 1
          /\ pc[r] = "done" => pc'[r] \in {"done", "gone"}]_vars

\* C18 witness: after one 429 the second attempt got a 500, the proxy has
\* answered 500 and two calls were made.
C18_Answered500 ==
    \E r \in Requests :
        /\ pc[r] = "done"
        /\ response[r] = 500
        /\ answer[r] = 500
        /\ retries[r] = 1
        /\ calls[r] = 2

\* C19: an attempt is held back only if the requests of its own endpoint
\* have MAX_REQUESTS_PER_MINUTE timestamps in the last minute.
C19_PerEndpointWindow ==
    [][\A r \in Requests :
          (pc[r] # "throttled" /\ pc'[r] = "throttled")
          => Len(Recent(recordedFor[endpoint'[r]], now))
                >= MAX_REQUESTS_PER_MINUTE]_vars

\* C20: when the write of a frame to some client fails, every other open
\* client still receives that frame and the upstream link stays as it is.
C20_BroadcastIsolation ==
    [][(Len(emitted') > Len(emitted) /\ writeFailed' # writeFailed)
       => /\ \A c \in OpenClients :
                clientState'[c] = "OPEN"
                => delivered'[c] = Append(delivered[c], emitted'[Len(emitted')])
          /\ upstreamVars' = upstreamVars]_vars

\* C20 witness: the write of the newest frame to one client failed, another
\* open client has received it and the shared link is Open.
C20_OneWriteFailed ==
    \E c \in writeFailed : \E d \in OpenClients :
        /\ emitted # <<>>
        /\ delivered[d] # <<>>
        /\ delivered[d][Len(delivered[d])] = emitted[Len(emitted)]
        /\ \A i \in 1..Len(delivered[c]) : delivered[c][i] # emitted[Len(emitted)]
        /\ IsOpen(sharedKrakenWs)

\* C21: a step that calls setupKrakenWebSocket (the admission of a client, the
\* reconnect timer) while the shared link is Open or Connecting creates no
\* socket, leaves the upstream state as it is and hands the admitted client
\* the shared link; otherwise it creates exactly one socket, Connecting and
\* shared.  No other step creates a socket.
C21_SetupIdempotent ==
    [][/\ (krakenClients' \ krakenClients # {} \/ timers' < timers)
          => IF /\ sharedKrakenWs # NoSocket
                /\ readyState[sharedKrakenWs] \in {"OPEN", "CONNECTING"}
             THEN /\ upstreamVars' = upstreamVars
                  /\ \A c \in krakenClients' \ krakenClients :
                        krakenWs'[c] = sharedKrakenWs
             ELSE /\ created' = created + 1
                  /\ sharedKrakenWs' = created'
                  /\ readyState' = [readyState EXCEPT ![created'] = "CONNECTING"]
                  /\ activeKrakenConnections' = activeKrakenConnections + 1
       /\ created' # created
          => (krakenClients' \ krakenClients # {} \/ timers' < timers)]_vars

\* C21 witness: a second client was admitted while the shared link was
\* connecting; there is still one socket and both clients hold it.
C21_SecondClientSameLink ==
    /\ created = 1
    /\ sharedKrakenWs = 1
    /\ readyState[1] = "CONNECTING"
    /\ Cardinality(krakenClients) = 2
    /\ \A c \in krakenClients : krakenWs[c] = 1

\* C22: no control or heartbeat message of the upstream is among the frames the
\* relay has sent to a client.
C22_ControlNotForwarded ==
    \A c \in Clients : \A i \in 1..Len(delivered[c]) : ~IsControl(delivered[c][i])

\* C23: an open shared link on which no further frame of the upstream arrives
\* is eventually closed.
C23_SilentLinkClosed ==
    \A n \in 0..FanoutFrames :
        (IsOpen(sharedKrakenWs) /\ Len(emitted) = n)
        ~> (~IsOpen(sharedKrakenWs) \/ Len(emitted) > n)

\* C24: the reconnect-attempt counter of the hook stays within
\* 0..maxReconnectAttempts; while it is at maxReconnectAttempts no step
\* schedules a reconnect, and the close handler that runs then sets the error
\* 'Failed to connect after multiple attempts'.
C24_MirrorReconnectBounded ==
    /\ [](reconnectAttemptsRef \in 0..maxReconnectAttempts)
    /\ [][/\ reconnectAttemptsRef = maxReconnectAttempts
             => (reconnectTimers' \subseteq reconnectTimers /\ retryTimers' <= retryTimers)
          /\ \A s \in BrowserSockets :
                (/\ socketState[s] = "CLOSING" /\ socketState'[s] = "CLOSED"
                 /\ reconnectAttemptsRef = maxReconnectAttempts)
                => hookError' = "Failed to connect after multiple attempts"]_vars

\* C24 witness: the hook has given up: the counter is at maxReconnectAttempts,
\* every socket it created is closed, no timer is pending and the terminal
\* error is set.
C24_GaveUp ==
    /\ reconnectAttemptsRef = maxReconnectAttempts
    /\ socketsCreated > 0
    /\ \A s \in 1..socketsCreated : socketState[s] = "CLOSED"
    /\ reconnectTimers = {} /\ retryTimers = 0
    /\ hookError = "Failed to connect after multiple attempts"

\* C25: every open of a socket of the hook sets the reconnect-attempt counter
\* to zero, and a close that schedules a reconnect while the counter is zero
\* makes it 1 and waits the first delay of the sequence (2 * baseReconnectDelay
\* plus at most 20%).
C25_ResetOnOpen ==
    [][\A s \in BrowserSockets :
          /\ (socketState[s] = "CONNECTING" /\ socketState'[s] = "OPEN")
             => reconnectAttemptsRef' = 0
          /\ (/\ socketState[s] = "CLOSING" /\ socketState'[s] = "CLOSED"
              /\ reconnectAttemptsRef = 0 /\ s \in reconnectTimers' \ reconnectTimers)
             => /\ reconnectAttemptsRef' = 1
                /\ delay' >= 2 * baseReconnectDelay
                /\ delay' <= (2 * baseReconnectDelay * 12) \div 10]_vars

\* C25 witness: a reconnect was scheduled before (a delay was computed, socket 1
\* is closed), the socket that followed is open and the counter is zero.
C25_OpenAfterReconnect ==
    /\ delay > 0
    /\ socketRef > 1 /\ socketState[socketRef] = "OPEN"
    /\ socketState[1] = "CLOSED"
    /\ reconnectAttemptsRef = 0

\* C26: for every attempt count a and every value of Math.random(), the
\* reconnect delay is at most maxReconnectDelay * 1.2 and at least
\* min(maxReconnectDelay, baseReconnectDelay * 2^a); the delay without jitter
\* does not decrease when a grows; and every delay the hook computes when it
\* schedules a reconnect is within these bounds for its counter.
C26_BackoffBounds ==
    [][/\ \A a \in 0..MaxAttempt : \A r \in 0..(RandomSteps - 1) :
             /\ getReconnectDelay(a, r) <= (maxReconnectDelay * 12) \div 10
             /\ getReconnectDelay(a, r) >= Min(maxReconnectDelay, baseReconnectDelay * 2 ^ a)
       /\ \A a \in 0..(MaxAttempt - 1) :
             getReconnectDelay(a, 0) <= getReconnectDelay(a + 1, 0)
       /\ reconnectAttemptsRef' = reconnectAttemptsRef + 1
          => /\ delay' <= (maxReconnectDelay * 12) \div 10
             /\ delay' >= Min(maxReconnectDelay,
                              baseReconnectDelay * 2 ^ reconnectAttemptsRef')]_vars

\* C26 witness: a reconnect was scheduled at the last attempt, with a delay at
\* the ceiling plus jitter.
C26_CeilingWithJitter ==
    /\ reconnectAttemptsRef = maxReconnectAttempts
    /\ delay > maxReconnectDelay
    /\ reconnectTimers # {}

\* C27: when a socket of the hook opens, a subscribe message for every
\* subscription in subscriptionsRef is written to that socket.
C27_MirrorReplay ==
    [][\A s \in BrowserSockets :
          (socketState[s] = "CONNECTING" /\ socketState'[s] = "OPEN")
          => \A i \in 1..Len(subscriptionsRef[1]) :
                \E j \in 1..Len(sent'[s]) :
                   sent'[s][j] = SubscribeMessage(subscriptionsRef[1][i])]_vars

\* C27 witness: after a reconnect (socket 1 is closed) socket 2 is open and a
\* subscribe message was written to it for each of the two subscriptions held.
C27_ReplayedOnReconnect ==
    /\ 2 \in BrowserSockets
    /\ socketState[1] = "CLOSED"
    /\ socketState[2] = "OPEN"
    /\ Len(subscriptionsRef[1]) = 2
    /\ \A i \in 1..2 : \E j \in 1..Len(sent[2]) :
          sent[2][j] = SubscribeMessage(subscriptionsRef[1][i])

\* C28: a frame of type 'status' or 'pong' is not passed to onMessage and does
\* not change ohlcData; every other frame, JSON or not, is passed to onMessage.
C28_StatusNotData ==
    [][Len(received') = Len(received) + 1
       => IF /\ "type" \in DOMAIN received'[Len(received')]
             /\ received'[Len(received')].type \in {"status", "pong"}
          THEN handled' = handled /\ ohlcData' = ohlcData
          ELSE handled' = Append(handled, received'[Len(received')])]_vars

\* C28 witness: of a status frame and an OHLC update received, only the update
\* was passed to onMessage, and it made a candle.
C28_StatusSkippedUpdateHandled ==
    /\ Len(received) = 2
    /\ received[1] = [type |-> "status", connected |-> TRUE]
    /\ "channelName" \in DOMAIN received[2]
    /\ handled = <<received[2]>>
    /\ Len(ohlcData) = 1

\* C31: every upstream call of a request has a timestamp recorded for it: a
\* request has made no more calls than it has timestamps.
C31_SentIsStamped ==
    \A r \in Requests : calls[r] <= stamps[r]

\* C32: a window never holds more than MAX_REQUESTS_PER_MINUTE timestamps, and
\* every attempt the rate check holds back waits 2 seconds (2 ^ 1).
C32_WindowBoundedWaitTwoSeconds ==
    /\ [](\A k \in Keys : Len(requestTimestamps[k]) <= MAX_REQUESTS_PER_MINUTE)
    /\ [][\A r \in Requests :
             (pc[r] # "throttled" /\ pc'[r] = "throttled") => wakeAt'[r] = now + 2]_vars

\* C32 witness: an attempt is held back for 2 seconds with the window full,
\* while more requests than the quota are under way.
C32_ThrottledAtFullWindow ==
    \E r \in Requests :
        /\ pc[r] = "throttled" /\ wakeAt[r] = now + 2
        /\ Len(requestTimestamps["kraken"]) = MAX_REQUESTS_PER_MINUTE
        /\ Cardinality({ q \in Requests : pc[q] \notin {"idle", "gone"} })
              > MAX_REQUESTS_PER_MINUTE

\* C33: a request for ohlc or ticker without pair is answered 400 in the step
\* that receives it, makes no upstream call and leaves the windows as they
\* are.
C33_MissingPairRejected ==
    [][\A r \in Requests :
          (/\ pc[r] = "idle" /\ pc'[r] # "idle"
           /\ endpoint'[r] \in {"ohlc", "ticker"} /\ query'[r] = "")
          => /\ answer'[r] = 400
             /\ pc'[r] = "done"
             /\ calls' = calls
             /\ requestTimestamps' = requestTimestamps]_vars

\* C33 witness: a ticker request without pair was answered 400 without a call,
\* the window is empty.
C33_TickerWithoutPair400 ==
    \E r \in Requests :
        /\ endpoint[r] = "ticker" /\ query[r] = ""
        /\ answer[r] = 400 /\ calls[r] = 0 /\ stamps[r] = 0
        /\ requestTimestamps["kraken"] = <<>>

\* C34: the close event of a socket closed with code 1000 schedules no
\* reconnect timer, counts no attempt and creates no socket.
C34_NoReconnectAfterNormalClose ==
    [][\A s \in BrowserSockets :
          (/\ socketState[s] = "CLOSING" /\ closeCode[s] = 1000
           /\ socketState'[s] = "CLOSED")
          => /\ reconnectTimers' = reconnectTimers
             /\ retryTimers' = retryTimers
             /\ reconnectAttemptsRef' = reconnectAttemptsRef
             /\ socketsCreated' = socketsCreated]_vars

\* C34 witness: the component is unmounted and its only socket is closed with
\* no attempt counted and no timer pending: a close with another code would
\* have counted an attempt, so disconnect() closed it with code 1000 and its
\* close event has been handled.
C34_ClosedByDisconnect ==
    /\ mounted = "gone"
    /\ socketsCreated = 1
    /\ socketState[1] = "CLOSED"
    /\ hookError = "null"
    /\ reconnectAttemptsRef = 0
    /\ reconnectTimers = {}
    /\ retryTimers = 0

\* C35: at most one socket of the hook is connecting or open.
C35_AtMostOneLiveSocket ==
    Cardinality({ s \in BrowserSockets : socketState[s] \in {"CONNECTING", "OPEN"} }) <= 1

\* C36: after subscribe(s) the list of the hook holds s, with the name,
\* interval and token passed, and the list never holds two entries of one name.
C36_SubscribeRecorded ==
    /\ [](\A i, j \in 1..Len(HookSubs) : HookSubs[i].name = HookSubs[j].name => i = j)
    /\ [][\A subscription \in Subscriptions \cup Selections :
             HookSubscribe(subscription)
             => \E i \in 1..Len(HookSubs') : HookSubs'[i] = subscription]_vars

\* C37: unsubscribe(s) with no open socket writes to no socket and leaves no
\* subscription of the name of s in the list.
C37_UnsubscribeWhileClosed ==
    [][\A subscription \in Subscriptions \cup Selections :
          (/\ HookUnsubscribe(subscription)
           /\ (socketRef = NoSocket \/ socketState[socketRef] # "OPEN"))
          => /\ sent' = sent
             /\ ~HasName(HookSubs', subscription.name)
             /\ \A i \in 1..Len(Resubscribe(HookSubs')) :
                   Resubscribe(HookSubs')[i].subscription.name # subscription.name]_vars

\* C37 witness: the socket has been open and is closed, the reconnect timer is
\* pending, and the subscription the hook held has been removed by the one
\* call of unsubscribe: the list is empty.
C37_RemovedWhileClosed ==
    /\ mounted = "yes"
    /\ socketRef # NoSocket /\ socketState[socketRef] = "CLOSED"
    /\ socketRef \in reconnectTimers
    /\ hookCalls = 1
    /\ HookSubs = <<>>

\* C39: the candle list never holds more than MaxCandles (500) candles.
C39_AtMostMaxCandles == Len(ohlcData) <= MaxCandles

\* C40: the times of the candle list are strictly increasing.
C40_StrictlyIncreasing ==
    \A i \in 1..(Len(ohlcData) - 1) : ohlcData[i].time < ohlcData[i + 1].time

\* The subscriptions a sequence of messages written to one socket leaves
\* active upstream: a subscribe adds its key, an unsubscribe removes it.
RECURSIVE Subscribed(_)
Subscribed(messages) ==
    IF messages = <<>> THEN {}
    ELSE LET m == messages[Len(messages)]
             before == Subscribed(SubSeq(messages, 1, Len(messages) - 1))
         IN  IF "name" \notin DOMAIN m THEN before
             ELSE IF m.name = "subscribe" THEN before \cup {SubKey(m)}
             ELSE before \ {SubKey(m)}

\* C38: with subscribe and unsubscribe called by useKrakenData's onOpen and
\* pair/interval effect only, when the subscribe of the effect is written to
\* the open socket, the messages written to that socket leave the
\* subscription of the selected pair and interval active and no other.
C38_OnlyNewSubscribed ==
    [][\A subscription \in Selections :
          (/\ SubscribeTimeout(subscription)
           /\ hookCalls = 0
           /\ socketRef # NoSocket /\ socketState[socketRef] = "OPEN")
          => Subscribed(sent'[socketRef]) = {SubKey(SubscribeMessage(subscription))}]_vars

\* C29: once the upstream link is open and nothing is pending, the relay has
\* forwarded every message it received of the connected clients: none of them
\* had a message that the relay neither forwarded nor kept.
C29_BufferedThenForwarded ==
    (/\ sharedKrakenWs # NoSocket
     /\ readyState[sharedKrakenWs] = "OPEN"
     /\ \A c \in Clients : toServer[c] = <<>> /\ statusInFlight[c] = 0)
    => dropped \cap OpenClients = {}

\* C30: every upstream socket that is Open or Connecting is the one
\* sharedKrakenWs refers to.
C30_NoOrphanLink ==
    \A s \in Socks : readyState[s] \in {"OPEN", "CONNECTING"} => s = sharedKrakenWs
====
